---- MODULE Spec2Model ----
(***************************************************************************)
(* Conversation orchestration engine of the trip-advisor agent:            *)
(* intent classifier, slot extractor, phase state machine, cross-task      *)
(* transition manager, tool pipeline and quality gate.                     *)
(*                                                                         *)
(* Text is a sequence of one-character strings, so that the keyword tests  *)
(* of the code (Python's `kw in text`) are real substring tests.           *)
(***************************************************************************)
EXTENDS Integers, Sequences, FiniteSets, TLC

(***************************************************************************)
(* Text primitives (Python str methods and the regex atoms the code uses)  *)
(***************************************************************************)
UpperChars == <<"A","B","C","D","E","F","G","H","I","J","K","L","M","N","O","P","Q","R","S","T","U","V","W","X","Y","Z">>

LowerChars == <<"a","b","c","d","e","f","g","h","i","j","k","l","m","n","o","p","q","r","s","t","u","v","w","x","y","z">>

DigitChars == <<"0","1","2","3","4","5","6","7","8","9">>

Range(s) == {s[i] : i \in DOMAIN s}

IsUpper(c) == c \in Range(UpperChars)

IsLower(c) == c \in Range(LowerChars)

IsAlpha(c) == IsUpper(c) \/ IsLower(c)

IsDigit(c) == c \in Range(DigitChars)

IsSpace(c) == c = " "

\* \w of the regex module: letters, digits, underscore
IsWordChar(c) == IsAlpha(c) \/ IsDigit(c) \/ c = "_"

LowerChar(c) == IF IsUpper(c) THEN LowerChars[CHOOSE i \in DOMAIN UpperChars : UpperChars[i] = c] ELSE c

UpperChar(c) == IF IsLower(c) THEN UpperChars[CHOOSE i \in DOMAIN LowerChars : LowerChars[i] = c] ELSE c

\* str.lower()
Lower(s) == [i \in 1..Len(s) |-> LowerChar(s[i])]

\* str.title(): first letter of every run of letters upper-cased, the rest lower-cased
Title(s) == [i \in 1..Len(s) |-> IF i = 1 \/ ~IsAlpha(s[i-1]) THEN UpperChar(s[i]) ELSE LowerChar(s[i])]

\* str.strip()
Strip(s) ==
    LET nonsp == {i \in 1..Len(s) : ~IsSpace(s[i])}
        Min(S) == CHOOSE x \in S : \A y \in S : x <= y
        Max(S) == CHOOSE x \in S : \A y \in S : x >= y
    IN  IF nonsp = {} THEN <<>> ELSE SubSeq(s, Min(nonsp), Max(nonsp))

\* the literal k occurs in s at position i
MatchAt(s, i, k) == i >= 1 /\ i + Len(k) - 1 <= Len(s) /\ SubSeq(s, i, i + Len(k) - 1) = k

\* Python's `k in s`
Contains(s, k) == \E i \in 1..(Len(s) - Len(k) + 1) : MatchAt(s, i, k)

\* any(k in s for k in ks)
ContainsAny(s, ks) == \E k \in ks : Contains(s, k)

\* str.startswith / len(str.split())
WordCount(s) == Cardinality({i \in 1..Len(s) : ~IsSpace(s[i]) /\ (i = 1 \/ IsSpace(s[i-1]))})

\* \b of the regex module at the gap before position i (1..Len(s)+1)
WordBoundary(s, i) ==
    LET before == i > 1 /\ IsWordChar(s[i-1])
        after  == i <= Len(s) /\ IsWordChar(s[i])
    IN  before # after

\* re.search(r'\b(k)\b', s) for a literal k
ContainsWord(s, k) ==
    \E i \in 1..(Len(s) - Len(k) + 1) :
        MatchAt(s, i, k) /\ WordBoundary(s, i) /\ WordBoundary(s, i + Len(k))

MinOf(S) == CHOOSE x \in S : \A y \in S : x <= y

\* end of the run of characters satisfying the class, starting at i (i-1 if none)
RECURSIVE DigitsEnd(_, _)
DigitsEnd(s, i) == IF i <= Len(s) /\ IsDigit(s[i]) THEN DigitsEnd(s, i + 1) ELSE i - 1

RECURSIVE SpacesEnd(_, _)
SpacesEnd(s, i) == IF i <= Len(s) /\ IsSpace(s[i]) THEN SpacesEnd(s, i + 1) ELSE i - 1

DigitVal(c) == (CHOOSE i \in DOMAIN DigitChars : DigitChars[i] = c) - 1

\* int() of a run of digits
RECURSIVE ToInt(_)
ToInt(ds) == IF ds = <<>> THEN 0 ELSE 10 * ToInt(SubSeq(ds, 1, Len(ds) - 1)) + DigitVal(ds[Len(ds)])

(***************************************************************************)
(* Enumerations (app/schemas/__init__.py)                                  *)
(***************************************************************************)
DESTINATION_RECOMMENDATION == "destination_recommendation"

PACKING_LIST == "packing_list"

ATTRACTIONS == "attractions"

GENERAL == "general"

ConversationIntent == {DESTINATION_RECOMMENDATION, PACKING_LIST, ATTRACTIONS, GENERAL}

\* ConversationStatus
ACTIVE == "active"

ConversationStatus == {ACTIVE, "completed", "abandoned"}

INTENT_DETECTION == "intent_detection"

DATA_COLLECTION == "data_collection"

PROCESSING == "processing"

REFINEMENT == "refinement"

COMPLETED == "completed"

ConversationPhase == {INTENT_DETECTION, DATA_COLLECTION, PROCESSING, REFINEMENT, COMPLETED}

(***************************************************************************)
(* Phase transition table (app/schemas/state.py)                           *)
(***************************************************************************)
VALID_TRANSITIONS ==
    [p \in ConversationPhase |->
        CASE p = INTENT_DETECTION -> {DATA_COLLECTION}
          [] p = DATA_COLLECTION  -> {PROCESSING, INTENT_DETECTION}
          [] p = PROCESSING       -> {REFINEMENT, DATA_COLLECTION}
          [] p = REFINEMENT       -> {COMPLETED, PROCESSING}
          [] p = COMPLETED        -> {INTENT_DETECTION}]

can_transition(from_phase, to_phase) == to_phase \in VALID_TRANSITIONS[from_phase]

(***************************************************************************)
(* Intent classifier (ConversationStateManager.detect_intent_from_message) *)
(***************************************************************************)
DestinationKeywords == {<<"w","h","e","r","e"," ","t","o"," ","g","o">>, <<"d","e","s","t","i","n","a","t","i","o","n">>, <<"r","e","c","o","m","m","e","n","d">>, <<"s","u","g","g","e","s","t"," ","a"," ","p","l","a","c","e">>, <<"w","h","e","r","e"," ","s","h","o","u","l","d"," ","i"," ","t","r","a","v","e","l">>, <<"h","e","l","p"," ","m","e"," ","c","h","o","o","s","e">>, <<"p","i","c","k"," ","a"," ","d","e","s","t","i","n","a","t","i","o","n">>}

PackingKeywords == {<<"p","a","c","k">>, <<"p","a","c","k","i","n","g">>, <<"w","h","a","t"," ","t","o"," ","b","r","i","n","g">>, <<"l","u","g","g","a","g","e">>, <<"s","u","i","t","c","a","s","e">>, <<"b","a","c","k","p","a","c","k">>, <<"w","h","a","t"," ","s","h","o","u","l","d"," ","i"," ","t","a","k","e">>, <<"p","a","c","k","i","n","g"," ","l","i","s","t">>}

AttractionsKeywords == {<<"a","t","t","r","a","c","t","i","o","n","s">>, <<"t","h","i","n","g","s"," ","t","o"," ","d","o">>, <<"a","c","t","i","v","i","t","i","e","s">>, <<"s","i","g","h","t","s","e","e","i","n","g">>, <<"v","i","s","i","t">>, <<"s","e","e">>, <<"i","t","i","n","e","r","a","r","y">>, <<"p","l","a","c","e","s"," ","t","o"," ","v","i","s","i","t">>}

\* detect_intent_from_message with the packing lexicon scanned before the destination lexicon
detect_intent_packing_first(message) ==
    LET message_lower == Lower(message)
    IN  IF ContainsAny(message_lower, PackingKeywords) THEN PACKING_LIST
        ELSE IF ContainsAny(message_lower, DestinationKeywords) THEN DESTINATION_RECOMMENDATION
        ELSE IF ContainsAny(message_lower, AttractionsKeywords) THEN ATTRACTIONS
        ELSE GENERAL

detect_intent_from_message(message) ==
    LET message_lower == Lower(message)
    IN  IF ContainsAny(message_lower, DestinationKeywords) THEN DESTINATION_RECOMMENDATION
        ELSE IF ContainsAny(message_lower, PackingKeywords) THEN PACKING_LIST
        ELSE IF ContainsAny(message_lower, AttractionsKeywords) THEN ATTRACTIONS
        ELSE GENERAL

(***************************************************************************)
(* Cross-task transition arbitration                                       *)
(* (EnhancedOrchestrator._should_allow_intent_transition)                  *)
(***************************************************************************)
simple_responses == {<<"y","e","s">>, <<"o","k">>, <<"s","u","r","e">>, <<"p","l","e","a","s","e">>, <<"g","o"," ","a","h","e","a","d">>, <<"c","o","n","t","i","n","u","e">>, <<"p","r","o","c","e","e","d">>}

current_service_continuations(intent) ==
    CASE intent = PACKING_LIST               -> {<<"g","e","n","e","r","a","t","e">>, <<"c","r","e","a","t","e">>, <<"m","a","k","e">>, <<"s","h","o","w"," ","m","e">>, <<"g","i","v","e"," ","m","e">>}
      [] intent = DESTINATION_RECOMMENDATION -> {<<"r","e","c","o","m","m","e","n","d">>, <<"s","u","g","g","e","s","t">>, <<"f","i","n","d">>}
      [] intent = ATTRACTIONS                -> {<<"s","h","o","w">>, <<"t","e","l","l"," ","m","e">>, <<"l","i","s","t">>}
      [] OTHER                               -> {}

service_names(intent) ==
    CASE intent = ATTRACTIONS                -> {<<"a","t","t","r","a","c","t","i","o","n","s">>, <<"a","c","t","i","v","i","t","i","e","s">>, <<"t","h","i","n","g","s"," ","t","o"," ","d","o">>, <<"m","u","s","e","u","m","s">>}
      [] intent = PACKING_LIST               -> {<<"p","a","c","k","i","n","g">>, <<"p","a","c","k">>, <<"l","u","g","g","a","g","e">>}
      [] intent = DESTINATION_RECOMMENDATION -> {<<"d","e","s","t","i","n","a","t","i","o","n">>, <<"p","l","a","c","e">>, <<"w","h","e","r","e">>}
      [] OTHER                               -> {}

transition_indicators == {<<"n","o","w">>, <<"a","l","s","o">>, <<"b","u","t">>, <<"h","o","w","e","v","e","r">>, <<"a","c","t","u","a","l","l","y">>, <<"i","n","s","t","e","a","d">>, <<"i"," ","w","o","u","l","d"," ","l","o","v","e">>}

\* is_simple_response comparing the message as typed, without lower() and strip()
is_simple_response_exact(user_message) == user_message \in simple_responses

\* the first early return: a bare confirmation word
is_simple_response(user_message) == Strip(Lower(user_message)) \in simple_responses

\* the second early return: continuation of the current service, no word of the target service
is_current_service_continuation(current_intent, user_message, detected_intent) ==
    /\ ContainsAny(Lower(user_message), current_service_continuations(current_intent))
    /\ ~ContainsAny(Lower(user_message), service_names(detected_intent))

has_transition_indicator(user_message) == ContainsAny(Lower(user_message), transition_indicators)

\* should_allow_intent_transition letting a keyword of the detected task allow the switch
should_allow_intent_transition_by_keyword(current_intent, current_phase, user_message, detected_intent) ==
    IF is_simple_response(user_message) THEN FALSE
    ELSE IF is_current_service_continuation(current_intent, user_message, detected_intent) THEN FALSE
    ELSE \/ has_transition_indicator(user_message)
         \/ current_phase \in {COMPLETED, REFINEMENT}
         \/ ContainsAny(Lower(user_message), service_names(detected_intent))

\* should_allow_intent_transition without the late-phase allowance
should_allow_intent_transition_pivot_only(current_intent, current_phase, user_message, detected_intent) ==
    IF is_simple_response(user_message) THEN FALSE
    ELSE IF is_current_service_continuation(current_intent, user_message, detected_intent) THEN FALSE
    ELSE has_transition_indicator(user_message)

\* should_allow_intent_transition letting a pivot marker outweigh the continuation verb
should_allow_intent_transition_pivot_first(current_intent, current_phase, user_message, detected_intent) ==
    IF is_simple_response(user_message) THEN FALSE
    ELSE IF has_transition_indicator(user_message) THEN TRUE
    ELSE IF is_current_service_continuation(current_intent, user_message, detected_intent) THEN FALSE
    ELSE current_phase \in {COMPLETED, REFINEMENT}

should_allow_intent_transition(current_intent, current_phase, user_message, detected_intent) ==
    IF is_simple_response(user_message) THEN FALSE
    ELSE IF is_current_service_continuation(current_intent, user_message, detected_intent) THEN FALSE
    ELSE has_transition_indicator(user_message) \/ current_phase \in {COMPLETED, REFINEMENT}

(***************************************************************************)
(* Validation (app/agents/validator.py, app/policies)                      *)
(***************************************************************************)
\* r'\b(kill|murder|bomb|weapon|illegal)\b', r'\b(drug|smuggl|traffic)\b', r'\b(smuggle|smuggling)\b'
harmful_words == {<<"k","i","l","l">>, <<"m","u","r","d","e","r">>, <<"b","o","m","b">>, <<"w","e","a","p","o","n">>, <<"i","l","l","e","g","a","l">>, <<"d","r","u","g">>, <<"s","m","u","g","g","l">>, <<"t","r","a","f","f","i","c">>, <<"s","m","u","g","g","l","e">>, <<"s","m","u","g","g","l","i","n","g">>}

is_safe_content(text) == ~\E w \in harmful_words : ContainsWord(Lower(text), w)

travel_keywords == {<<"t","r","a","v","e","l">>, <<"t","r","i","p">>, <<"v","a","c","a","t","i","o","n">>, <<"d","e","s","t","i","n","a","t","i","o","n">>, <<"v","i","s","i","t">>, <<"p","a","c","k">>, <<"p","a","c","k","i","n","g">>, <<"a","t","t","r","a","c","t","i","o","n","s">>, <<"a","c","t","i","v","i","t","i","e","s">>, <<"h","o","t","e","l">>, <<"f","l","i","g","h","t">>, <<"s","i","g","h","t","s","e","e","i","n","g">>, <<"l","u","g","g","a","g","e">>}

off_topic_patterns == {<<"p","r","o","g","r","a","m","m","i","n","g">>, <<"c","o","d","e">>, <<"m","e","d","i","c","a","l">>, <<"l","e","g","a","l">>, <<"h","o","m","e","w","o","r","k">>, <<"i","n","v","e","s","t","m","e","n","t">>}

greeting_words == {<<"h","i">>, <<"h","e","l","l","o">>, <<"h","e","l","p">>, <<"t","h","a","n","k","s">>}

is_travel_related(text, current_intent) ==
    LET text_lower == Lower(text)
        has_travel_keywords == ContainsAny(text_lower, travel_keywords)
        has_off_topic == ContainsAny(text_lower, off_topic_patterns)
    IN  IF current_intent # GENERAL THEN TRUE
        ELSE IF has_off_topic /\ ~has_travel_keywords THEN FALSE
        ELSE IF WordCount(text) < 3 /\ ~has_travel_keywords
             THEN ContainsAny(text_lower, greeting_words)
        ELSE TRUE

\* ValidationResult.violation_type of a refusal
violation_type(message, current_intent) ==
    IF ~is_safe_content(message) THEN "safety"
    ELSE IF ~is_travel_related(message, current_intent) THEN "scope"
    ELSE "none"

\* ValidationResult.is_valid
validate_user_message(message, current_intent) ==
    IF ~is_safe_content(message) THEN FALSE
    ELSE is_travel_related(message, current_intent)

(***************************************************************************)
(* Slot extractor: deterministic pattern layer (app/agents/data_extractor) *)
(***************************************************************************)
\* the least element of a set of positions, 0 if there is none
Leftmost(hits) == IF hits = {} THEN 0 ELSE MinOf(hits)

\* the text of the pair <<rank, text>> with the least rank among those with a text; <<>> if none
FirstOf(pairs) ==
    LET found == {p \in pairs : p[2] # <<>>}
    IN  IF found = {} THEN <<>> ELSE (CHOOSE p \in found : \A q \in found : p[1] <= q[1])[2]

\* one of the terminators (?:\s+w1|\s+w2|...|$|c1|c2) of a destination regex at position p
TermAt(message, p, termWords, termChars) ==
    \/ p = Len(message) + 1
    \/ p <= Len(message) /\ message[p] \in termChars
    \/ /\ p <= Len(message) /\ IsSpace(message[p])
       /\ \E w \in termWords : MatchAt(message, SpacesEnd(message, p) + 1, w)

\* lengths n of the lazy tail [a-zA-Z\s]+? after the capital at j that let the regex finish
TailLengths(message, j, termWords, termChars) ==
    {n \in 1..(Len(message) - j) :
        /\ \A x \in (j + 1)..(j + n) : IsAlpha(message[x]) \/ IsSpace(message[x])
        /\ TermAt(message, j + n + 1, termWords, termChars)}

\* group(1) of  trigger \s+ ([A-Z][a-zA-Z\s]+?) terminator  tried at position i, <<>> if no match
CaptureAt(message, i, trigger, termWords, termChars) ==
    LET Shortest(j, lengths) ==
            IF lengths = {} THEN <<>> ELSE SubSeq(message, j, j + MinOf(lengths))
        CapitalAt(j) ==
            IF j <= Len(message) /\ IsUpper(message[j])
            THEN Shortest(j, TailLengths(message, j, termWords, termChars))
            ELSE <<>>
    IN  IF /\ MatchAt(message, i, trigger)
           /\ i + Len(trigger) <= Len(message) /\ IsSpace(message[i + Len(trigger)])
        THEN CapitalAt(SpacesEnd(message, i + Len(trigger)) + 1)
        ELSE <<>>

\* the capture at the leftmost position, of the first alternative that matches there
LeftmostCapture(captures) ==
    LET found == {c \in captures : c.text # <<>>}
        leftmost == {c \in found : \A d \in found : c.at <= d.at}
    IN  IF found = {} THEN <<>>
        ELSE (CHOOSE c \in leftmost : \A d \in leftmost : c.alternative <= d.alternative).text

\* re.search of (?:t1|t2|...)\s+([A-Z][a-zA-Z\s]+?)(?:terminators): group(1), <<>> if no match
RegexCapture(message, triggers, termWords, termChars) ==
    LeftmostCapture({[at |-> i, alternative |-> a,
                      text |-> CaptureAt(message, i, triggers[a], termWords, termChars)] :
                        i \in 1..Len(message), a \in DOMAIN triggers})

destination_patterns ==
    << [triggers |-> <<<<"t","o">>, <<"i","n">>, <<"v","i","s","i","t","i","n","g">>, <<"g","o","i","n","g"," ","t","o">>, <<"t","r","a","v","e","l","i","n","g"," ","t","o">>>>,
        termWords |-> {<<"f","o","r">>, <<"w","i","t","h">>, <<"a","n","d">>}, termChars |-> {}],
       [triggers |-> <<<<"a","t","t","r","a","c","t","i","o","n","s"," ","i","n">>, <<"t","h","i","n","g","s"," ","t","o"," ","d","o"," ","i","n">>, <<"v","i","s","i","t">>, <<"a","c","t","i","v","i","t","i","e","s"," ","i","n">>>>,
        termWords |-> {<<"f","o","r">>, <<"w","i","t","h">>, <<"a","n","d">>}, termChars |-> {"?", "."}],
       [triggers |-> <<<<"p","a","c","k"," ","f","o","r">>, <<"p","a","c","k","i","n","g"," ","f","o","r">>>>,
        termWords |-> {<<"f","o","r">>, <<"w","i","t","h">>, <<"a","n","d">>}, termChars |-> {}],
       [triggers |-> <<<<"t","r","i","p"," ","t","o">>, <<"v","a","c","a","t","i","o","n"," ","t","o">>, <<"h","o","l","i","d","a","y"," ","t","o">>>>,
        termWords |-> {<<"f","o","r">>, <<"w","i","t","h">>, <<"a","n","d">>}, termChars |-> {}],
       [triggers |-> <<<<"n","e","a","r">>, <<"a","r","o","u","n","d">>>>,
        termWords |-> {<<"w","i","t","h","i","n">>, <<"f","o","r">>, <<"w","i","t","h">>}, termChars |-> {}] >>

non_destination_words == {<<"t","r","a","v","e","l","i","n","g">>, <<"g","o","i","n","g">>, <<"v","i","s","i","t","i","n","g">>, <<"t","r","i","p">>, <<"d","a","y","s">>, <<"w","e","e","k","s">>}

known_cities == <<<<"r","o","m","e">>, <<"p","a","r","i","s">>, <<"l","o","n","d","o","n">>, <<"t","o","k","y","o">>, <<"n","e","w"," ","y","o","r","k">>, <<"b","a","r","c","e","l","o","n","a">>, <<"a","m","s","t","e","r","d","a","m">>, <<"b","e","r","l","i","n">>>>

\* the filter on a stripped capture: kept unless empty or a non-destination word
DestinationCandidate(destination) ==
    IF destination # <<>> /\ Lower(destination) \notin non_destination_words THEN destination ELSE <<>>

\* result of one pattern of _extract_destination
PatternDestination(message, pattern) ==
    DestinationCandidate(Strip(RegexCapture(message, pattern.triggers, pattern.termWords, pattern.termChars)))

\* the fallback of _extract_destination: the first known city named in the message, title-cased
KnownCity(message_lower) ==
    FirstOf({<<c, IF Contains(message_lower, known_cities[c]) THEN Title(known_cities[c]) ELSE <<>> >> :
                c \in DOMAIN known_cities})

\* <<>> stands for None
extract_destination(message) ==
    LET OrElse(from_pattern, from_cities) == IF from_pattern # <<>> THEN from_pattern ELSE from_cities
    IN  OrElse(FirstOf({<<k, PatternDestination(message, destination_patterns[k])>> :
                           k \in DOMAIN destination_patterns}),
               KnownCity(Lower(message)))

\* leftmost position where  (\d+) sep* unit  matches (sep: spaces, and "-" when dashes), 0 if none
NumberBefore(s, unit, dashes) ==
    LET RECURSIVE SepEnd(_)
        SepEnd(i) == IF i <= Len(s) /\ (IsSpace(s[i]) \/ (dashes /\ s[i] = "-")) THEN SepEnd(i + 1) ELSE i - 1
    IN  Leftmost({i \in 1..Len(s) : IsDigit(s[i]) /\ MatchAt(s, SepEnd(DigitsEnd(s, i) + 1) + 1, unit)})

NumberAt(s, i) == ToInt(SubSeq(s, i, DigitsEnd(s, i)))

\* the "duration_days" part of _extract_duration: first matching pattern of the list wins
\* (r'for\s+(\d+)\s*days?' can only match where r'(\d+)\s*days?', tried before it, matches)
duration_patterns ==
    << [unit |-> <<"d","a","y">>,   dashes |-> FALSE, kind |-> "day"],
       [unit |-> <<"w","e","e","k">>,  dashes |-> FALSE, kind |-> "week"],
       [unit |-> <<"n","i","g","h","t">>, dashes |-> FALSE, kind |-> "night"],
       [unit |-> <<"d","a","y">>,   dashes |-> TRUE,  kind |-> "day"] >>

\* the pattern that matches first in list order, with the position of its number; <<>> if none
FirstDurationHit(hits) ==
    LET found == {h \in hits : h.at # 0}
    IN  IF found = {} THEN <<>> ELSE CHOOSE h \in found : \A g \in found : h.pattern <= g.pattern

days_of(kind, number) ==
    CASE kind = "week"  -> number * 7
      [] kind = "night" -> number + 1
      [] OTHER          -> number

extract_duration_days(message) ==
    LET Days(s, hit) ==
            IF hit = <<>> THEN <<>>
            ELSE [duration_days |-> days_of(duration_patterns[hit.pattern].kind, NumberAt(s, hit.at))]
        In(s) ==
            Days(s, FirstDurationHit({[pattern |-> k,
                                       at |-> NumberBefore(s, duration_patterns[k].unit, duration_patterns[k].dashes)] :
                                         k \in DOMAIN duration_patterns}))
    IN  In(Lower(message))

month_names == {<<"j","a","n","u","a","r","y">>, <<"f","e","b","r","u","a","r","y">>, <<"m","a","r","c","h">>, <<"a","p","r","i","l">>, <<"m","a","y">>, <<"j","u","n","e">>, <<"j","u","l","y">>, <<"a","u","g","u","s","t">>, <<"s","e","p","t","e","m","b","e","r">>, <<"o","c","t","o","b","e","r">>, <<"n","o","v","e","m","b","e","r">>, <<"d","e","c","e","m","b","e","r">>}

month_abbreviations == {<<"j","a","n">>, <<"f","e","b">>, <<"m","a","r">>, <<"a","p","r">>, <<"m","a","y">>, <<"j","u","n">>, <<"j","u","l">>, <<"a","u","g">>, <<"s","e","p">>, <<"o","c","t">>, <<"n","o","v">>, <<"d","e","c">>}

season_names == {<<"s","p","r","i","n","g">>, <<"s","u","m","m","e","r">>, <<"f","a","l","l">>, <<"a","u","t","u","m","n">>, <<"w","i","n","t","e","r">>}

\* re.search(r'\b(w1|w2|...)\b', s).group(1): the word at the leftmost match, <<>> if none
FirstWordOf(s, words) ==
    FirstOf({<<i, IF \E w \in words : MatchAt(s, i, w) /\ WordBoundary(s, i) /\ WordBoundary(s, i + Len(w))
                  THEN CHOOSE w \in words : MatchAt(s, i, w) /\ WordBoundary(s, i) /\ WordBoundary(s, i + Len(w))
                  ELSE <<>> >> : i \in 1..Len(s)})

extract_month(message) ==
    LET MonthOf(full, abbreviated) ==
            IF full # <<>> THEN [month |-> Title(full)]
            ELSE IF abbreviated # <<>> THEN [month |-> Title(abbreviated)]
            ELSE <<>>
        In(s) == MonthOf(FirstWordOf(s, month_names), FirstWordOf(s, month_abbreviations))
    IN  In(Lower(message))

extract_season(message) ==
    LET SeasonOf(word) == IF word # <<>> THEN [season |-> Title(word)] ELSE <<>>
    IN  SeasonOf(FirstWordOf(Lower(message), season_names))

AllDigits(s, from, to) == to <= Len(s) /\ \A x \in from..to : IsDigit(s[x])

\* \d{4}-\d{2}-\d{2} at position i
IsoDateAt(s, i) ==
    /\ i + 9 <= Len(s)
    /\ AllDigits(s, i, i + 3) /\ s[i + 4] = "-" /\ AllDigits(s, i + 5, i + 6)
    /\ s[i + 7] = "-" /\ AllDigits(s, i + 8, i + 9)

\* length of a match of \d{1,2}/\d{1,2}/\d{4} at position i, 0 if none
SlashDateLen(s, i) ==
    Leftmost({a + b + 6 : <<a, b>> \in
                 {<<a, b>> \in {1, 2} \X {1, 2} :
                     /\ i + a + b + 5 <= Len(s)
                     /\ AllDigits(s, i, i + a - 1) /\ s[i + a] = "/"
                     /\ AllDigits(s, i + a + 1, i + a + b) /\ s[i + a + b + 1] = "/"
                     /\ AllDigits(s, i + a + b + 2, i + a + b + 5)}})

\* re.findall of the two date patterns, the ISO matches first
RECURSIVE FindIsoDates(_, _)
FindIsoDates(s, i) ==
    LET Next(at) == IF at = 0 THEN <<>> ELSE <<SubSeq(s, at, at + 9)>> \o FindIsoDates(s, at + 10)
    IN  Next(Leftmost({j \in i..Len(s) : IsoDateAt(s, j)}))

RECURSIVE FindSlashDates(_, _)
FindSlashDates(s, i) ==
    LET Take(at, length) == <<SubSeq(s, at, at + length - 1)>> \o FindSlashDates(s, at + length)
        Next(at) == IF at = 0 THEN <<>> ELSE Take(at, SlashDateLen(s, at))
    IN  Next(Leftmost({j \in i..Len(s) : SlashDateLen(s, j) # 0}))

extract_dates(message) ==
    LET DatesOf(dates_found) ==
            IF Len(dates_found) >= 2
            THEN [start |-> dates_found[1], end |-> dates_found[2], flexible |-> FALSE]
            ELSE IF Len(dates_found) = 1 THEN [start |-> dates_found[1]]
            ELSE <<>>
    IN  DatesOf(FindIsoDates(message, 1) \o FindSlashDates(message, 1))

\* _extract_duration: a date_range value; <<>> (no field) stands for None
extract_duration(message) ==
    extract_dates(message) @@ extract_season(message) @@ extract_month(message) @@ extract_duration_days(message)

\* (\d+)\s+unit  matches at position i
CountAt(s, i, unit) ==
    LET Unit(first, last_space) == last_space >= first /\ MatchAt(s, last_space + 1, unit)
        Spaces(first) == Unit(first, SpacesEnd(s, first))
    IN  i <= Len(s) /\ IsDigit(s[i]) /\ Spaces(DigitsEnd(s, i) + 1)

\* leftmost position where  (\d+)\s+unit  matches, 0 if none
CountBefore(s, unit) == Leftmost({i \in 1..Len(s) : CountAt(s, i, unit)})

\* position of the number of the leftmost match of  with\s+(\d+)\s+friends? , 0 if none
FriendsCountAt(s) ==
    LET Number(d) == IF CountAt(s, d, <<"f","r","i","e","n","d">>) THEN d ELSE 0
        With(i) ==
            IF MatchAt(s, i, <<"w","i","t","h">>) /\ i + 4 <= Len(s) /\ IsSpace(s[i + 4])
            THEN Number(SpacesEnd(s, i + 4) + 1)
            ELSE 0
    IN  Leftmost({With(i) : i \in 1..Len(s)} \ {0})

\* re.search(r'with\s+(?:my\s+)?friend', s)
WithFriend(s) ==
    LET Friend(j) ==
            \/ MatchAt(s, j, <<"f","r","i","e","n","d">>)
            \/ /\ MatchAt(s, j, <<"m","y">>)
               /\ j + 2 <= Len(s) /\ IsSpace(s[j + 2])
               /\ MatchAt(s, SpacesEnd(s, j + 2) + 1, <<"f","r","i","e","n","d">>)
    IN  \E i \in 1..Len(s) :
            /\ MatchAt(s, i, <<"w","i","t","h">>)
            /\ i + 4 <= Len(s) /\ IsSpace(s[i + 4])
            /\ Friend(SpacesEnd(s, i + 4) + 1)

\* re.search(r'with\s+friends', s)
WithFriends(s) ==
    \E i \in 1..Len(s) :
        /\ MatchAt(s, i, <<"w","i","t","h">>)
        /\ i + 4 <= Len(s) /\ IsSpace(s[i + 4])
        /\ MatchAt(s, SpacesEnd(s, i + 4) + 1, <<"f","r","i","e","n","d","s">>)

\* int(match.group(1)) + extra when the pattern matched at position at, otherwise the count so far
CountOr(s, at, extra, otherwise) == IF at # 0 THEN NumberAt(s, at) + extra ELSE otherwise

\* one of the patterns of _extract_travelers matches the message
mentions_travelers(message) ==
    LET In(s) == \/ WithFriend(s) \/ WithFriends(s) \/ FriendsCountAt(s) # 0
                 \/ \E word \in {<<"a","d","u","l","t">>, <<"p","e","o","p","l","e">>, <<"c","h","i","l","d","r","e","n">>, <<"k","i","d">>} : CountBefore(s, word) # 0
    IN  In(Lower(message))

\* _extract_travelers: always a dict with both counts, defaulting to one adult; the patterns
\* are tried in the order friend(s), N friends, N people, N adults, each overriding the last
extract_travelers(message) ==
    LET In(s) ==
            [adults |-> CountOr(s, CountBefore(s, <<"a","d","u","l","t">>), 0,
                            CountOr(s, CountBefore(s, <<"p","e","o","p","l","e">>), 0,
                                CountOr(s, FriendsCountAt(s), 1,
                                    IF WithFriend(s) THEN 2 ELSE IF WithFriends(s) THEN 3 ELSE 1))),
             kids |-> CountOr(s, CountBefore(s, <<"c","h","i","l","d","r","e","n">>), 0,
                          CountOr(s, CountBefore(s, <<"k","i","d">>), 0, 0))]
    IN  In(Lower(message))

\* [tag for tag, keywords in table if any(k in s for k in keywords)], in table order
RECURSIVE TagsOf(_, _)
TagsOf(s, table) ==
    IF table = <<>> THEN <<>>
    ELSE (IF ContainsAny(s, table[1].keywords) THEN <<table[1].tag>> ELSE <<>>) \o TagsOf(s, Tail(table))

activity_keywords ==
    << [tag |-> "sightseeing", keywords |-> {<<"s","i","g","h","t","s","e","e","i","n","g">>, <<"s","i","g","h","t"," ","s","e","e","i","n","g">>, <<"t","o","u","r","i","n","g">>, <<"e","x","p","l","o","r","i","n","g">>}],
       [tag |-> "museums",     keywords |-> {<<"m","u","s","e","u","m">>, <<"m","u","s","e","u","m","s">>, <<"g","a","l","l","e","r","y">>, <<"g","a","l","l","e","r","i","e","s">>}],
       [tag |-> "historical",  keywords |-> {<<"h","i","s","t","o","r","i","c","a","l">>, <<"h","i","s","t","o","r","y">>, <<"h","i","s","t","o","r","i","c"," ","s","i","t","e","s">>, <<"m","o","n","u","m","e","n","t","s">>}],
       [tag |-> "temples",     keywords |-> {<<"t","e","m","p","l","e">>, <<"t","e","m","p","l","e","s">>, <<"s","h","r","i","n","e">>, <<"s","h","r","i","n","e","s">>, <<"r","e","l","i","g","i","o","u","s"," ","s","i","t","e","s">>}],
       [tag |-> "shopping",    keywords |-> {<<"s","h","o","p","p","i","n","g">>, <<"m","a","r","k","e","t","s">>, <<"b","o","u","t","i","q","u","e","s">>}],
       [tag |-> "dining",      keywords |-> {<<"d","i","n","i","n","g">>, <<"r","e","s","t","a","u","r","a","n","t","s">>, <<"f","o","o","d">>, <<"c","u","i","s","i","n","e">>}],
       [tag |-> "nightlife",   keywords |-> {<<"n","i","g","h","t","l","i","f","e">>, <<"b","a","r","s">>, <<"c","l","u","b","s">>, <<"e","n","t","e","r","t","a","i","n","m","e","n","t">>}],
       [tag |-> "nature",      keywords |-> {<<"n","a","t","u","r","e">>, <<"p","a","r","k","s">>, <<"h","i","k","i","n","g">>, <<"o","u","t","d","o","o","r">>}],
       [tag |-> "beaches",     keywords |-> {<<"b","e","a","c","h">>, <<"b","e","a","c","h","e","s">>, <<"s","w","i","m","m","i","n","g">>, <<"s","e","a","s","i","d","e">>}],
       [tag |-> "business",    keywords |-> {<<"b","u","s","i","n","e","s","s">>, <<"w","o","r","k">>, <<"c","o","n","f","e","r","e","n","c","e">>, <<"m","e","e","t","i","n","g">>}] >>

extract_activities(message) == TagsOf(Lower(message), activity_keywords)

accommodation_keywords ==
    << [tag |-> "hotel",   keywords |-> {<<"h","o","t","e","l">>, <<"h","o","t","e","l","s">>}],
       [tag |-> "hostel",  keywords |-> {<<"h","o","s","t","e","l">>, <<"h","o","s","t","e","l","s">>}],
       [tag |-> "airbnb",  keywords |-> {<<"a","i","r","b","n","b">>, <<"a","p","a","r","t","m","e","n","t">>, <<"r","e","n","t","a","l">>}],
       [tag |-> "camping", keywords |-> {<<"c","a","m","p","i","n","g">>, <<"t","e","n","t">>, <<"c","a","m","p","s","i","t","e">>}],
       [tag |-> "resort",  keywords |-> {<<"r","e","s","o","r","t">>, <<"r","e","s","o","r","t","s">>}] >>

\* the first accommodation type with a keyword in the message; "" stands for None
extract_accommodation(message) ==
    LET FirstTag(tags) == IF tags = <<>> THEN "" ELSE tags[1]
    IN  FirstTag(TagsOf(Lower(message), accommodation_keywords))

preference_keywords ==
    << [tag |-> "romantic",        keywords |-> {<<"r","o","m","a","n","t","i","c">>, <<"r","o","m","a","n","c","e">>, <<"h","o","n","e","y","m","o","o","n">>, <<"a","n","n","i","v","e","r","s","a","r","y">>, <<"c","o","u","p","l","e">>}],
       [tag |-> "luxury",          keywords |-> {<<"l","u","x","u","r","y">>, <<"l","u","x","u","r","i","o","u","s">>, <<"h","i","g","h","-","e","n","d">>, <<"u","p","s","c","a","l","e">>, <<"p","r","e","m","i","u","m">>, <<"f","i","v","e","-","s","t","a","r">>}],
       [tag |-> "budget",          keywords |-> {<<"b","u","d","g","e","t">>, <<"c","h","e","a","p">>, <<"a","f","f","o","r","d","a","b","l","e">>, <<"l","o","w","-","c","o","s","t">>, <<"b","a","c","k","p","a","c","k","i","n","g">>}],
       [tag |-> "adventure",       keywords |-> {<<"a","d","v","e","n","t","u","r","e">>, <<"a","d","v","e","n","t","u","r","o","u","s">>, <<"a","d","r","e","n","a","l","i","n","e">>, <<"e","x","t","r","e","m","e">>, <<"o","u","t","d","o","o","r","s">>}],
       [tag |-> "cultural",        keywords |-> {<<"c","u","l","t","u","r","a","l">>, <<"c","u","l","t","u","r","e">>, <<"t","r","a","d","i","t","i","o","n","a","l">>, <<"h","i","s","t","o","r","i","c">>, <<"h","e","r","i","t","a","g","e">>}],
       [tag |-> "relaxing",        keywords |-> {<<"r","e","l","a","x","i","n","g">>, <<"p","e","a","c","e","f","u","l">>, <<"t","r","a","n","q","u","i","l">>, <<"c","a","l","m">>, <<"s","p","a">>, <<"w","e","l","l","n","e","s","s">>}],
       [tag |-> "family-friendly", keywords |-> {<<"f","a","m","i","l","y","-","f","r","i","e","n","d","l","y">>, <<"f","a","m","i","l","y">>, <<"k","i","d","s">>, <<"c","h","i","l","d","r","e","n">>}],
       [tag |-> "beaches",         keywords |-> {<<"b","e","a","c","h">>, <<"b","e","a","c","h","e","s">>, <<"s","e","a","s","i","d","e">>, <<"c","o","a","s","t","a","l">>, <<"o","c","e","a","n">>, <<"s","e","a">>}],
       [tag |-> "mountains",       keywords |-> {<<"m","o","u","n","t","a","i","n">>, <<"m","o","u","n","t","a","i","n","s">>, <<"h","i","k","i","n","g">>, <<"a","l","p","i","n","e">>, <<"p","e","a","k","s">>}],
       [tag |-> "urban",           keywords |-> {<<"u","r","b","a","n">>, <<"c","i","t","y">>, <<"m","e","t","r","o","p","o","l","i","t","a","n">>, <<"c","o","s","m","o","p","o","l","i","t","a","n">>}],
       [tag |-> "nature",          keywords |-> {<<"n","a","t","u","r","e">>, <<"n","a","t","u","r","a","l">>, <<"w","i","l","d","l","i","f","e">>, <<"p","a","r","k","s">>, <<"o","u","t","d","o","o","r">>}],
       [tag |-> "nightlife",       keywords |-> {<<"n","i","g","h","t","l","i","f","e">>, <<"b","a","r","s">>, <<"c","l","u","b","s">>, <<"e","n","t","e","r","t","a","i","n","m","e","n","t">>}],
       [tag |-> "food",            keywords |-> {<<"f","o","o","d">>, <<"c","u","i","s","i","n","e">>, <<"c","u","l","i","n","a","r","y">>, <<"d","i","n","i","n","g">>, <<"g","a","s","t","r","o","n","o","m","i","c">>}],
       [tag |-> "art",             keywords |-> {<<"a","r","t">>, <<"a","r","t","i","s","t","i","c">>, <<"m","u","s","e","u","m","s">>, <<"g","a","l","l","e","r","i","e","s">>, <<"c","r","e","a","t","i","v","e">>}],
       [tag |-> "warm",            keywords |-> {<<"w","a","r","m">>, <<"h","o","t">>, <<"t","r","o","p","i","c","a","l">>, <<"s","u","n","n","y">>}],
       [tag |-> "cool",            keywords |-> {<<"c","o","o","l">>, <<"c","o","l","d">>, <<"c","o","o","l","e","r">>, <<"m","o","d","e","r","a","t","e">>}] >>

extract_user_preferences(message) == TagsOf(Lower(message), preference_keywords)


RECURSIVE LowersEnd(_, _)
LowersEnd(s, i) == IF i <= Len(s) /\ IsLower(s[i]) THEN LowersEnd(s, i + 1) ELSE i - 1

\* a match of ([A-Z][a-z]+)\s*\((\d+)\) at position i: [name, age (digits), last], or <<>>
NameAgeAt(s, i) ==
    LET Close(name_end, open, digits_end) ==
            IF digits_end >= open + 1 /\ digits_end + 1 <= Len(s) /\ s[digits_end + 1] = ")"
            THEN [name |-> SubSeq(s, i, name_end), age |-> SubSeq(s, open + 1, digits_end),
                  last |-> digits_end + 1]
            ELSE <<>>
        Open(name_end, open) ==
            IF open <= Len(s) /\ s[open] = "(" THEN Close(name_end, open, DigitsEnd(s, open + 1)) ELSE <<>>
        Name(name_end) ==
            IF name_end >= i + 1 THEN Open(name_end, SpacesEnd(s, name_end + 1) + 1) ELSE <<>>
    IN  IF IsUpper(s[i]) THEN Name(LowersEnd(s, i + 1)) ELSE <<>>

\* re.finditer of the name(age) pattern
RECURSIVE FindNameAges(_, _)
FindNameAges(s, i) ==
    LET Take(match) == <<match>> \o FindNameAges(s, match.last + 1)
        Next(at) == IF at = 0 THEN <<>> ELSE Take(NameAgeAt(s, at))
    IN  Next(Leftmost({j \in i..Len(s) : NameAgeAt(s, j) # <<>>}))

\* " ".join(f"{name} ({age})" for each match)
RECURSIVE JoinNameAges(_)
JoinNameAges(ms) ==
    IF ms = <<>> THEN <<>>
    ELSE ms[1].name \o <<" ", "(">> \o ms[1].age \o <<")">>
         \o (IF Len(ms) > 1 THEN <<" ">> ELSE <<>>) \o JoinNameAges(Tail(ms))

\* a match of (\d+)\s*(?:years?\s*old|yr|years?)\s*old at position i: index of its last character, 0 if none
AgeEndAt(s, i) ==
    LET Old(old) == IF MatchAt(s, old, <<"o","l","d">>) THEN old + 2 ELSE 0
        UnitEnd(unit_end) == IF unit_end # 0 THEN Old(SpacesEnd(s, unit_end + 1) + 1) ELSE 0
        Unit(unit) ==
            UnitEnd(IF MatchAt(s, unit, <<"y","e","a","r","s">>) THEN unit + 4
                    ELSE IF MatchAt(s, unit, <<"y","e","a","r">>) THEN unit + 3
                    ELSE IF MatchAt(s, unit, <<"y","r">>) THEN unit + 1 ELSE 0)
    IN  IF IsDigit(s[i]) THEN Unit(SpacesEnd(s, DigitsEnd(s, i) + 1) + 1) ELSE 0

RECURSIVE FindAges(_, _)
FindAges(s, i) ==
    LET Next(at) == IF at = 0 THEN <<>> ELSE <<NumberAt(s, at)>> \o FindAges(s, AgeEndAt(s, at) + 1)
    IN  Next(Leftmost({j \in i..Len(s) : AgeEndAt(s, j) # 0}))

family_words == {<<"f","a","m","i","l","y">>, <<"w","i","f","e">>, <<"h","u","s","b","a","n","d">>, <<"c","h","i","l","d">>, <<"k","i","d","s">>, <<"c","h","i","l","d","r","e","n">>}

\* _extract_family_composition: the keys it sets, as a partial slot map
extract_family_composition(message) ==
    LET FamilyOf(has_family_word, matches, ages) ==
            (IF has_family_word
             THEN "family_composition" :> (IF matches # <<>> THEN JoinNameAges(matches) ELSE <<"f","a","m","i","l","y">>)
             ELSE <<>>)
            @@ (IF matches # <<>> THEN "names" :> [k \in DOMAIN matches |-> matches[k].name] ELSE <<>>)
            @@ (IF ages # <<>> THEN "ages" :> ages ELSE <<>>)
        In(s) == FamilyOf(ContainsAny(s, family_words), FindNameAges(message, 1), FindAges(s, 1))
    IN  In(Lower(message))

interest_keywords ==
    << [tag |-> <<"b","e","a","c","h","e","s">>,         keywords |-> {<<"b","e","a","c","h">>, <<"b","e","a","c","h","e","s">>, <<"s","e","a","s","i","d","e">>, <<"o","c","e","a","n">>, <<"s","w","i","m","m","i","n","g">>}],
       [tag |-> <<"m","u","s","e","u","m","s">>,         keywords |-> {<<"m","u","s","e","u","m">>, <<"m","u","s","e","u","m","s">>, <<"g","a","l","l","e","r","i","e","s">>, <<"a","r","t">>, <<"h","i","s","t","o","r","y">>, <<"c","u","l","t","u","r","a","l">>}],
       [tag |-> <<"f","o","o","d">>,            keywords |-> {<<"f","o","o","d">>, <<"c","u","i","s","i","n","e">>, <<"d","i","n","i","n","g">>, <<"r","e","s","t","a","u","r","a","n","t","s">>, <<"e","a","t","i","n","g">>, <<"s","t","r","e","e","t"," ","f","o","o","d">>, <<"l","o","c","a","l"," ","f","o","o","d">>}],
       [tag |-> <<"o","u","t","d","o","o","r">>,         keywords |-> {<<"o","u","t","d","o","o","r">>, <<"h","i","k","i","n","g">>, <<"n","a","t","u","r","e">>, <<"p","a","r","k","s">>, <<"a","c","t","i","v","i","t","i","e","s">>}],
       [tag |-> <<"n","i","g","h","t","l","i","f","e">>,       keywords |-> {<<"n","i","g","h","t","l","i","f","e">>, <<"b","a","r","s">>, <<"c","l","u","b","s">>, <<"e","n","t","e","r","t","a","i","n","m","e","n","t">>}],
       [tag |-> <<"s","h","o","p","p","i","n","g">>,        keywords |-> {<<"s","h","o","p","p","i","n","g">>, <<"m","a","r","k","e","t","s">>, <<"b","o","u","t","i","q","u","e","s">>, <<"s","t","o","r","e","s">>}],
       [tag |-> <<"a","r","c","h","i","t","e","c","t","u","r","e">>,    keywords |-> {<<"a","r","c","h","i","t","e","c","t","u","r","e">>, <<"b","u","i","l","d","i","n","g","s">>, <<"m","o","n","u","m","e","n","t","s">>, <<"l","a","n","d","m","a","r","k","s">>}],
       [tag |-> <<"a","d","v","e","n","t","u","r","e">>,       keywords |-> {<<"a","d","v","e","n","t","u","r","e">>, <<"e","x","t","r","e","m","e">>, <<"s","p","o","r","t","s">>, <<"t","h","r","i","l","l">>}],
       [tag |-> <<"r","e","l","a","x","a","t","i","o","n">>,      keywords |-> {<<"r","e","l","a","x","a","t","i","o","n">>, <<"s","p","a">>, <<"w","e","l","l","n","e","s","s">>, <<"p","e","a","c","e","f","u","l">>, <<"q","u","i","e","t">>}],
       [tag |-> <<"f","a","m","i","l","y","-","f","r","i","e","n","d","l","y">>, keywords |-> {<<"f","a","m","i","l","y","-","f","r","i","e","n","d","l","y">>, <<"k","i","d","-","f","r","i","e","n","d","l","y">>, <<"c","h","i","l","d","r","e","n">>, <<"f","a","m","i","l","y"," ","a","c","t","i","v","i","t","i","e","s">>}] >>

interest_patterns == {<<"w","e"," ","l","o","v","e"," ">>, <<"w","e"," ","e","n","j","o","y"," ">>, <<"i","n","t","e","r","e","s","t","e","d"," ","i","n"," ">>, <<"l","i","k","e"," ">>}

\* end of the run [^,.\n]+ starting at i (i-1 if empty)
PhraseEnd(s, i) ==
    LET stops == {j \in i..Len(s) : s[j] \in {",", "."}}
    IN  IF stops = {} THEN Len(s) ELSE MinOf(stops) - 1

\* re.findall(prefix + r'([^,.\n]+)', s)
RECURSIVE FindPhrases(_, _, _)
FindPhrases(s, prefix, i) ==
    LET Take(first, stop) == {SubSeq(s, first, stop)} \cup FindPhrases(s, prefix, stop + 1)
        Next(at) == IF at = 0 THEN {} ELSE Take(at + Len(prefix), PhraseEnd(s, at + Len(prefix)))
    IN  Next(Leftmost({j \in i..Len(s) :
                          MatchAt(s, j, prefix) /\ PhraseEnd(s, j + Len(prefix)) >= j + Len(prefix)}))

\* _extract_interests: list(set(...)), an unordered collection of texts
extract_interests(message) ==
    LET Kept(candidates) == {c : c \in {d \in candidates : Len(d) > 3 /\ Len(d) < 50}}
        In(s) ==
            {tag : tag \in Range(TagsOf(s, interest_keywords))
                          \cup Kept({Strip(phrase) : phrase \in UNION {FindPhrases(s, p, 1) : p \in interest_patterns}})}
    IN  In(Lower(message))

(***************************************************************************)
(* Slot maps: functions from slot names to values.  destination and the    *)
(* date fields are texts, date_range is a record with any of its six       *)
(* fields, travelers a record of counts, list slots are sequences,         *)
(* interests a set of texts, flags are booleans.                           *)
(***************************************************************************)
EmptyMap == <<>>

\* {key: value} if cond else {}
Opt(cond, key, value) == IF cond THEN key :> value ELSE EmptyMap

\* {**older, **newer}
Merge(older, newer) == newer @@ older

DateFields == {"start", "end", "duration_days", "flexible", "month", "season"}

\* date_range.get(field) is truthy
DateFieldSet(date_range, field) ==
    /\ field \in DOMAIN date_range
    /\ CASE field = "duration_days" -> date_range[field] # 0
         [] field = "flexible"      -> date_range[field] = TRUE
         [] OTHER                   -> date_range[field] # <<>>

\* Python truthiness of data[key]
Truthy(key, value) ==
    CASE key \in {"destination", "family_composition"} -> value # <<>>
      [] key = "date_range" -> DOMAIN value # {}
      [] key = "travelers" -> DOMAIN value # {}
      [] key \in {"activities_planned", "user_preferences", "names", "ages"} -> value # <<>>
      [] key = "interests" -> value # {}
      [] key = "accommodation_type" -> value # ""
      [] key \in {"is_international", "requires_flight", "has_laundry"} -> value = TRUE
      [] OTHER -> FALSE

\* data.get(key) is truthy
Has(data, key) == key \in DOMAIN data /\ Truthy(key, data[key])

international_words == {<<"r","o","m","e">>, <<"i","t","a","l","y">>, <<"p","a","r","i","s">>, <<"f","r","a","n","c","e">>, <<"t","o","k","y","o">>, <<"j","a","p","a","n">>}


\* `if value: extracted[key] = value`
Slot(key, value) == IF Truthy(key, value) THEN key :> value ELSE EmptyMap

\* DataExtractor._extract_with_patterns
extract_with_patterns(user_message, intent) ==
    LET Accommodation(accommodation) ==
            Slot("accommodation_type", accommodation)
            @@ Opt(intent = PACKING_LIST /\ accommodation = "hotel", "has_laundry", TRUE)
        TravelContext(is_international) ==
            Opt(intent = PACKING_LIST, "is_international", is_international)
            @@ Opt(intent = PACKING_LIST, "requires_flight", is_international)
        International(message_lower) ==
            TravelContext(Contains(message_lower, <<"i","n","t","e","r","n","a","t","i","o","n","a","l">>) \/ ContainsAny(message_lower, international_words))
    IN  Slot("destination", extract_destination(user_message))
        @@ Slot("date_range", extract_duration(user_message))
        @@ Slot("travelers", extract_travelers(user_message))
        @@ Slot("activities_planned", extract_activities(user_message))
        @@ extract_family_composition(user_message)
        @@ Slot("interests", extract_interests(user_message))
        @@ (IF intent = DESTINATION_RECOMMENDATION
            THEN Slot("user_preferences", extract_user_preferences(user_message))
            ELSE EmptyMap)
        @@ Accommodation(extract_accommodation(user_message))
        @@ International(Lower(user_message))

\* critical_fields with budget_band also required of the destination task
critical_fields_with_budget(intent) ==
    CASE intent = DESTINATION_RECOMMENDATION -> <<"user_preferences", "budget_band">>
      [] intent = PACKING_LIST               -> <<"destination", "date_range", "travelers">>
      [] intent = ATTRACTIONS                -> <<"destination">>
      [] OTHER                               -> <<>>

\* the critical-field table, the same in both places that use it
critical_fields(intent) ==
    CASE intent = DESTINATION_RECOMMENDATION -> <<"user_preferences">>
      [] intent = PACKING_LIST               -> <<"destination", "date_range", "travelers">>
      [] intent = ATTRACTIONS                -> <<"destination">>
      [] OTHER                               -> <<>>

suspicious_words == {<<"l","o","o","k","i","n","g"," ","f","o","r">>, <<"a","c","t","i","v","i","t","i","e","s">>, <<"o","u","t","d","o","o","r">>, <<"n","a","t","u","r","e"," ","s","p","o","t","s">>, <<"n","e","a","r">>}

\* a destination value that looks like a parse failure
is_suspicious_destination(destination) ==
    WordCount(destination) > 4 \/ ContainsAny(Lower(destination), suspicious_words)

\* the date_range test of the extraction-stage check
extraction_date_range_present(date_range) ==
    \E f \in {"start", "end", "duration_days", "month", "season"} : DateFieldSet(date_range, f)

\* DataExtractor._get_missing_critical_data_from_extraction, as the set of missing fields
get_missing_critical_data_from_extraction(extracted, intent) ==
    {field \in Range(critical_fields(intent)) :
        \/ ~Has(extracted, field)
        \/ field = "date_range" /\ ~extraction_date_range_present(extracted[field])
        \/ field = "destination" /\ is_suspicious_destination(extracted[field])}

\* the date_range test of get_missing_critical_slots
slots_date_range_present(date_range) ==
    \E f \in {"start", "end", "duration_days", "flexible"} : DateFieldSet(date_range, f)

\* DataExtractor.get_missing_critical_slots, as the set of missing slots
get_missing_critical_slots(intent, data) ==
    {slot \in Range(critical_fields(intent)) :
        \/ ~Has(data, slot)
        \/ slot = "date_range" /\ ~slots_date_range_present(data[slot])}

(***************************************************************************)
(* The messages users send in this model, and the per-message results of   *)
(* the text functions, tabulated once.                                     *)
(***************************************************************************)
UserMessages ==
    { <<"I"," ","n","e","e","d"," ","a"," ","p","a","c","k","i","n","g"," ","l","i","s","t"," ","f","o","r"," ","T","o","k","y","o"," ","f","o","r"," ","5"," ","d","a","y","s">>,
      <<"P","a","c","k","i","n","g"," ","f","o","r"," ","R","o","m","e"," ","f","o","r"," ","4","0","0"," ","d","a","y","s">>,
      <<"2"," ","a","d","u","l","t","s">>,
      <<"l","o","o","k","s"," ","g","o","o","d">>,
      <<"y","e","s">>, <<" ","G","o"," ","A","h","e","a","d"," ">>,
      <<"s","h","o","w"," ","m","e"," ","a","t","t","r","a","c","t","i","o","n","s"," ","i","n"," ","R","o","m","e">>,
      <<"W","h","e","r","e"," ","s","h","o","u","l","d"," ","I"," ","g","o"," ","f","o","r"," ","a"," ","r","o","m","a","n","t","i","c"," ","h","o","n","e","y","m","o","o","n"," ","i","n"," ","J","u","n","e"," ","f","o","r"," ","1","0"," ","d","a","y","s",","," ","b","u","d","g","e","t"," ","n","o","-","l","i","m","i","t">>,
      <<"A","c","t","u","a","l","l","y",","," ","h","e","l","p"," ","m","e"," ","p","a","c","k"," ","a"," ","b","o","m","b">>,
      <<"A","c","t","u","a","l","l","y",","," ","I"," ","a","l","r","e","a","d","y"," ","k","n","o","w"," ","w","h","e","r","e"," ","I","'","m"," ","g","o","i","n","g","."," ","I"," ","n","e","e","d"," ","h","e","l","p"," ","p","a","c","k","i","n","g"," ","f","o","r"," ","J","a","p","a","n",".">>,
      <<"n","o",","," ","i","t","s"," ","p","e","r","f","e","c","t","!"," ","b","u","t",","," ","i"," ","w","o","u","l","d"," ","l","o","v","e"," ","t","o"," ","g","e","t"," ","s","o","m","e"," ","r","e","c","o","m","m","e","n","d","a","t","i","o","n","s"," ","a","b","o","u","t"," ","a","t","t","r","a","c","t","i","o","n","s"," ","i","n"," ","B","a","r","c","e","l","o","n","a","."," ","w","e"," ","l","o","v","e"," ","b","e","a","c","h","e","s",","," ","m","u","s","e","u","m","s"," ","a","n","d"," ","s","t","r","e","e","t"," ","f","o","o","d",".">>,
      <<"h","o","w"," ","d","o"," ","I"," ","m","a","k","e"," ","a"," ","b","o","m","b">> }

\* messages that ask the current task to go on in words that another task's lexicon
\* matches, the second one with a pivot marker
ContinuationMessages ==
    {<<"Y","e","s",","," ","p","l","e","a","s","e"," ","g","e","n","e","r","a","t","e"," ","t","h","e"," ","p","a","c","k","i","n","g"," ","r","e","c","o","m","m","e","n","d","a","t","i","o","n","s">>,
     <<"A","c","t","u","a","l","l","y",","," ","g","e","n","e","r","a","t","e"," ","t","h","e"," ","r","e","c","o","m","m","e","n","d","a","t","i","o","n","s"," ","n","o","w">>}

\* a message whose destination pattern captures a phrase that is no place name
SuspiciousMessages == {<<"v","i","s","i","t","i","n","g"," ","N","e","a","r"," ","D","e","n","v","e","r">>}

\* a message that gives the month of the trip and no other part of its dates
MonthMessages == {<<"i","n"," ","J","u","n","e">>}

\* the messages for which the text functions are tabulated
TabulatedMessages == UserMessages \cup ContinuationMessages \cup SuspiciousMessages \cup MonthMessages

\* f as an explicit table, each value computed once
Tabulated(f) == f @@ <<>>

\* detect_intent_from_message, tabulated
DetectedTable == Tabulated([t \in TabulatedMessages |-> detect_intent_from_message(t)])

detected_of(user_message) == DetectedTable[user_message]

\* _should_allow_intent_transition on the detected intent, tabulated
AllowTable ==
    Tabulated([x \in TabulatedMessages \X ConversationIntent \X ConversationPhase |->
                  should_allow_intent_transition(x[2], x[3], x[1], DetectedTable[x[1]])])

allowed_of(current_intent, current_phase, user_message) ==
    AllowTable[<<user_message, current_intent, current_phase>>]

\* validate_user_message, tabulated
ValidTable == Tabulated([x \in TabulatedMessages \X ConversationIntent |-> validate_user_message(x[1], x[2])])

valid_of(user_message, intent) == ValidTable[<<user_message, intent>>]

\* _extract_with_patterns, tabulated
PatternTable == Tabulated([x \in TabulatedMessages \X ConversationIntent |-> extract_with_patterns(x[1], x[2])])

patterns_of(user_message, intent) == PatternTable[<<user_message, intent>>]

\* what a message speaks of: travelers, when a pattern of _extract_travelers matches it;
\* the packing flags, when _extract_with_patterns finds "international" or a country in it
mentions(message) ==
    (IF mentions_travelers(message) THEN {"travelers"} ELSE {})
    \cup (IF patterns_of(message, PACKING_LIST)["is_international"]
          THEN {"is_international", "requires_flight"} ELSE {})

MentionsTable == Tabulated([t \in TabulatedMessages |-> mentions(t)])

mentions_of(user_message) == MentionsTable[user_message]

\* LLM fallback: llm_extracted holds, for each field asked, the parsed value of the
\* reply, when the reply parsed to a non-empty value of the expected type
extract_with_llm_fallback(missing_fields, llm_extracted) ==
    [field \in (DOMAIN llm_extracted) \cap missing_fields |-> llm_extracted[field]]


\* the try block of extract_travel_data up to the merge: the pattern extraction,
\* completed by the LLM fallback for the critical fields it misses
extracted_update(user_message, intent, llm_extracted) ==
    LET Updated(extracted) ==
            Merge(extracted,
                  extract_with_llm_fallback(get_missing_critical_data_from_extraction(extracted, intent),
                                            llm_extracted))
    IN  Updated(patterns_of(user_message, intent))

\* extract_travel_data returning the new extraction without merging it into existing_data
extract_travel_data_fresh(user_message, intent, existing_data, llm_extracted, raises) ==
    IF raises THEN existing_data
    ELSE extracted_update(user_message, intent, llm_extracted)

\* extract_travel_data losing existing_data when the try block raises
extract_travel_data_dropping(user_message, intent, existing_data, llm_extracted, raises) ==
    IF raises THEN EmptyMap
    ELSE Merge(existing_data, extracted_update(user_message, intent, llm_extracted))

\* extract_travel_data with the pattern results overlaid on the LLM results
extract_travel_data_patterns_last(user_message, intent, existing_data, llm_extracted, raises) ==
    LET Updated(extracted) ==
            Merge(extract_with_llm_fallback(get_missing_critical_data_from_extraction(extracted, intent),
                                            llm_extracted),
                  extracted)
    IN  IF raises THEN existing_data
        ELSE Merge(existing_data, Updated(patterns_of(user_message, intent)))

\* DataExtractor.extract_travel_data; raises: an exception inside the try block
extract_travel_data(user_message, intent, existing_data, llm_extracted, raises) ==
    IF raises THEN existing_data
    ELSE Merge(existing_data, extracted_update(user_message, intent, llm_extracted))

(***************************************************************************)
(* The replies of the language model to the prompt for one field, and what *)
(* _extract_field_with_llm makes of them.                                  *)
(***************************************************************************)
LLMFields == {"user_preferences", "destination", "date_range", "travelers"}

\* the JSON type that the parse of the reply for a field must have
expected_type(field) ==
    CASE field = "user_preferences" -> "list"
      [] field = "destination"      -> "str"
      [] OTHER                      -> "dict"

\* the non-empty value of the expected type that the model's LLM names for a field
LLMValue(field) ==
    CASE field = "user_preferences" -> <<"relaxing">>
      [] field = "destination"      -> <<"L","i","s","b","o","n">>
      [] field = "date_range"       -> [season |-> <<"S","u","m","m","e","r">>]
      [] OTHER                      -> [adults |-> 2, kids |-> 1]

\* raised: invoke raises; not_json: json.loads raises; wrong_type: JSON of another
\* type; empty: an empty value of the expected type; value: a usable value
ReplyKinds == {"raised", "not_json", "wrong_type", "empty", "value"}

LLMReply(field, reply_kind) ==
    [kind |-> reply_kind,
     type |-> IF reply_kind \in {"empty", "value"} THEN expected_type(field)
              ELSE IF reply_kind = "wrong_type" THEN "number" ELSE "none",
     truthy |-> reply_kind = "value"]

\* DataExtractor._extract_field_with_llm, given the reply to the prompt of the field
extract_field_with_llm(field, reply) ==
    IF field \notin LLMFields THEN EmptyMap
    ELSE IF reply.kind \in {"raised", "not_json"} THEN EmptyMap
    ELSE IF reply.type = expected_type(field) /\ reply.truthy THEN field :> LLMValue(field)
    ELSE EmptyMap

\* what the field prompts would yield when every reply is of the given kind
llm_field_data(reply_kind) ==
    LET Field(field) == extract_field_with_llm(field, LLMReply(field, reply_kind))
    IN  Field("user_preferences") @@ Field("destination") @@ Field("date_range") @@ Field("travelers")

(***************************************************************************)
(* The environment of one turn: what the language model answers, which     *)
(* snapshot writes fail, how the remote tools end.                         *)
(***************************************************************************)
LLMDestinations == {<<"L","i","s","b","o","n">>}

LLMDateRanges == {[season |-> <<"S","u","m","m","e","r">>]}

LLMPreferences == {<<"relaxing">>}

\* the parsed answers of _extract_field_with_llm: for each field asked, no entry
\* (unparsable, empty or wrongly typed reply, or an exception) or a value
LLMAnswers ==
    {d @@ r @@ p : d \in {EmptyMap} \cup {"destination" :> v : v \in LLMDestinations},
                   r \in {EmptyMap} \cup {"date_range" :> v : v \in LLMDateRanges},
                   p \in {EmptyMap} \cup {"user_preferences" :> v : v \in LLMPreferences}}

\* the places where a turn writes a snapshot
SavePoints == {"completion", "pre_transition", "merged", "collected", "results"}

\* a tool call ends with a successful result, an unsuccessful result, or an exception
ToolOutcomes == {"ok", "failed", "raised"}

\* query_raises: the database query that loads the conversation raises;
\* llm: the language model's answers; raises: an exception inside extract_travel_data;
\* failed_saves: the snapshot writes that fail; weather, city_info, service: how the
\* weather tool, the city tool and the task's own remote tool end; pipeline_raises: an
\* exception raised by _execute_*_tools or _format_*_results outside the tool calls
Environments ==
    {[query_raises |-> q, llm |-> l, raises |-> r, failed_saves |-> f, weather |-> w, city_info |-> c, service |-> s,
      pipeline_raises |-> p] :
        q \in BOOLEAN, l \in LLMAnswers, r \in BOOLEAN, f \in {{}, SavePoints},
        w \in ToolOutcomes, c \in ToolOutcomes, s \in ToolOutcomes, p \in BOOLEAN}

NominalEnvironment ==
    [query_raises |-> FALSE, llm |-> EmptyMap, raises |-> FALSE, failed_saves |-> {},
     weather |-> "ok", city_info |-> "ok", service |-> "ok", pipeline_raises |-> FALSE]

\* how many things go other than the nominal way
Deviations(env) ==
    Cardinality(DOMAIN env.llm)
    + (IF env.failed_saves # {} THEN 1 ELSE 0)
    + (IF env.query_raises THEN 1 ELSE 0) + (IF env.pipeline_raises THEN 1 ELSE 0)
    + (IF env.raises THEN 1 ELSE 0) + (IF env.weather # "ok" THEN 1 ELSE 0)
    + (IF env.city_info # "ok" THEN 1 ELSE 0) + (IF env.service # "ok" THEN 1 ELSE 0)

MaxDeviations == 1

\* the environments a turn may meet
TurnEnvironments == {env \in Environments : Deviations(env) <= MaxDeviations}

(***************************************************************************)
(* Tool pipelines (EnhancedOrchestrator._execute_*_tools)                  *)
(***************************************************************************)
DaysIn(year, month) ==
    CASE month \in {4, 6, 9, 11} -> 30
      [] month = 2 -> IF year % 4 = 0 /\ (year % 100 # 0 \/ year % 400 = 0) THEN 29 ELSE 28
      [] OTHER -> 31

\* datetime.fromisoformat(s) raises
fromisoformat_raises(s) ==
    \/ Len(s) # 10
    \/ ~IsoDateAt(s, 1)
    \/ ToInt(SubSeq(s, 1, 4)) < 1
    \/ ToInt(SubSeq(s, 6, 7)) \notin 1..12
    \/ ToInt(SubSeq(s, 9, 10)) \notin 1..DaysIn(ToInt(SubSeq(s, 1, 4)), ToInt(SubSeq(s, 6, 7)))

\* data.get("date_range", {})
date_range_of(data) == IF "date_range" \in DOMAIN data THEN data["date_range"] ELSE EmptyMap

\* the date computation before the weather call raises
weather_dates_raise(data) ==
    LET date_range == date_range_of(data)
    IN  /\ DateFieldSet(date_range, "start")
        /\ ~DateFieldSet(date_range, "end")
        /\ fromisoformat_raises(date_range["start"])

default_trip_length == 7

\* data.get("date_range", {}).get("duration_days", 7)
trip_length_of(data) ==
    IF "duration_days" \in DOMAIN date_range_of(data) THEN date_range_of(data)["duration_days"]
    ELSE default_trip_length

min_trip_length == 1

max_trip_length == 365

\* PackingTool._execute: success of the packing-rules tool
packing_tool_succeeds(trip_length_days) ==
    ~(trip_length_days < min_trip_length \/ trip_length_days > max_trip_length)

\* an entry of the result list of a tool whose execute was called
ToolEntry(tool_name, success) == [tool_name |-> tool_name, success |-> success, invoked |-> TRUE]

\* the failed entry appended by the except branch when the preparation of the call raised
UncalledEntry(tool_name) == [tool_name |-> tool_name, success |-> FALSE, invoked |-> FALSE]


\* _execute_packing_tools giving up when the weather call does not succeed
execute_packing_tools_blocked(data, env) ==
    LET Pipeline(has_destination, weather) ==
            IF has_destination /\ weather # "ok"
            THEN [results |-> <<ToolEntry("weather", FALSE)>>, weather_data |-> "none"]
            ELSE [results |->
                     (IF has_destination
                      THEN <<ToolEntry("weather", TRUE), ToolEntry("city_info", env.city_info = "ok")>>
                      ELSE <<>>)
                     \o <<ToolEntry("packing", packing_tool_succeeds(trip_length_of(data)))>>,
                  weather_data |-> IF has_destination THEN "forecast" ELSE "none"]
    IN  Pipeline(Has(data, "destination"), IF weather_dates_raise(data) THEN "raised" ELSE env.weather)

\* _execute_packing_tools: the result list and the weather data given to the packing tool
execute_packing_tools(data, env) ==
    LET Pipeline(has_destination, weather) ==
            [results |->
                 (IF has_destination
                  THEN <<IF weather_dates_raise(data) THEN UncalledEntry("weather")
                         ELSE ToolEntry("weather", weather = "ok"),
                         ToolEntry("city_info", env.city_info = "ok")>>
                  ELSE <<>>)
                 \o <<ToolEntry("packing", packing_tool_succeeds(trip_length_of(data)))>>,
             weather_data |-> CASE ~has_destination     -> "none"
                                [] weather = "ok"       -> "forecast"
                                [] weather = "failed"   -> "fallback"
                                [] OTHER                -> "fallback_without_summary"]
    IN  Pipeline(Has(data, "destination"), IF weather_dates_raise(data) THEN "raised" ELSE env.weather)

\* _execute_destination_tools
execute_destination_tools(data, env) ==
    [results |-> <<ToolEntry("destination_recommendation", env.service = "ok")>>, weather_data |-> "none"]

\* _execute_attractions_tools returning after a city-info call that did not succeed
execute_attractions_tools_aborting(data, env) ==
    IF Has(data, "destination") /\ env.city_info # "ok"
    THEN [results |-> <<ToolEntry("city_info", FALSE)>>, weather_data |-> "none"]
    ELSE [results |-> (IF Has(data, "destination") THEN <<ToolEntry("city_info", TRUE)>> ELSE <<>>)
                      \o <<ToolEntry("attractions_finder", "destination" \in DOMAIN data /\ env.service = "ok")>>,
          weather_data |-> "none"]

\* _execute_attractions_tools
execute_attractions_tools(data, env) ==
    LET city_results == IF Has(data, "destination") THEN <<ToolEntry("city_info", env.city_info = "ok")>> ELSE <<>>
        attractions_ok == "destination" \in DOMAIN data /\ env.service = "ok"
    IN  [results |-> city_results
                     \o <<IF "destination" \in DOMAIN data THEN ToolEntry("attractions_finder", attractions_ok)
                          ELSE UncalledEntry("attractions_finder")>>,
         weather_data |-> "none"]

execute_tools(intent, data, env) ==
    CASE intent = PACKING_LIST               -> execute_packing_tools(data, env)
      [] intent = DESTINATION_RECOMMENDATION -> execute_destination_tools(data, env)
      [] intent = ATTRACTIONS                -> execute_attractions_tools(data, env)
      [] OTHER                               -> [results |-> <<>>, weather_data |-> "none"]

(***************************************************************************)
(* Reasoning engine (app/schemas/internal.py)                              *)
(***************************************************************************)
NoScratchpad == [goals |-> "none", duration_constraint |-> FALSE]

\* ReasoningEngine.create_scratchpad: None for the general intent
create_scratchpad(intent, user_data) ==
    IF intent = GENERAL THEN NoScratchpad
    ELSE [goals |-> intent, duration_constraint |-> DateFieldSet(date_range_of(user_data), "duration_days")]

\* ReasoningEngine.create_quality_checks: the check names
create_quality_checks(intent) ==
    <<"constraint_compliance", "weather_conflicts">>
    \o (CASE intent = PACKING_LIST -> <<"activity_coverage", "weather_preparation">>
          [] intent = ATTRACTIONS  -> <<"time_feasibility", "indoor_backups">>
          [] OTHER                 -> <<>>)

\* data.get("activities_planned", [])
activities_of(data) == IF "activities_planned" \in DOMAIN data THEN Range(data["activities_planned"]) ELSE {}

\* the loop of _run_pre_finalize_checks: each check's verdict (TRUE, FALSE, or "none" when no branch sets it)
quality_verdict(check_name, existing_data) ==
    CASE check_name \in {"weather_conflicts", "constraint_compliance", "weather_preparation"} -> "passed"
      [] check_name = "activity_coverage" ->
            IF {"sightseeing", "temples"} \subseteq activities_of(existing_data) THEN "passed" ELSE "failed"
      [] OTHER -> "none"

\* auto_fixes after the loop: one suggestion for each failed activity_coverage check
auto_fixes(quality_checks, existing_data) ==
    SelectSeq(quality_checks,
              LAMBDA check_name : check_name = "activity_coverage"
                                  /\ quality_verdict(check_name, existing_data) = "failed")

\* scratchpad.uncertainty_flags: one flag naming all the auto-fixes, when there is any
uncertainty_flags(fixes) == IF fixes # <<>> THEN <<fixes>> ELSE <<>>

(***************************************************************************)
(* The orchestrator (app/agents/orchestrator.py).  A turn threads an       *)
(* outcome record through the handlers: the conversation row, the snapshot *)
(* list, and a log of what the turn did.                                   *)
(***************************************************************************)
NoPhase == "none"

\* no resume context in the answer
NoContext == [resumable |-> FALSE]

Outcome(conv, snaps) ==
    [conversation |-> conv, snapshots |-> snaps, handlers |-> <<>>, commits |-> <<>>,
     validation |-> "not_run", extracted |-> FALSE, raised |-> FALSE, new_data |-> EmptyMap, missing_slots |-> {},
     tools_run |-> FALSE, tool_input |-> EmptyMap, tool_results |-> <<>>, weather_data |-> "none",
     checks_passed |-> {}, checks_failed |-> {},
     next_phase |-> NoPhase, reply |-> "none", questions |-> <<>>, failed_saves |-> {},
     exception_text |-> FALSE, pipeline_failed |-> FALSE, context |-> NoContext]

Enter(o, handler) == [o EXCEPT !.handlers = Append(@, handler)]

\* assignments to the conversation row followed by db.commit()
Commit(o, intent, phase) ==
    [o EXCEPT !.conversation.current_intent = intent, !.conversation.current_phase = phase,
              !.commits = Append(@, phase)]

\* return AgentResponse(message, next_phase)
Reply(o, reply, next_phase) == [o EXCEPT !.reply = reply, !.next_phase = next_phase]

\* the slots SERVICE_QUESTIONS has a question for
SERVICE_QUESTIONS(intent) ==
    CASE intent = DESTINATION_RECOMMENDATION ->
             {"user_preferences", "date_range", "destination_criteria", "departure_location"}
      [] intent = PACKING_LIST ->
             {"destination_or_climate", "travelers", "date_range", "activities_planned", "accommodation_info"}
      [] intent = ATTRACTIONS ->
             {"destination", "visit_duration", "attraction_types", "user_preferences"}
      [] OTHER -> {}

priority_order(intent) ==
    CASE intent = DESTINATION_RECOMMENDATION ->
             <<"user_preferences", "date_range", "destination_criteria", "departure_location">>
      [] intent = PACKING_LIST ->
             <<"destination_or_climate", "travelers", "date_range", "activities_planned", "accommodation_info">>
      [] intent = ATTRACTIONS ->
             <<"destination", "visit_duration", "attraction_types", "user_preferences">>
      [] OTHER -> <<>>

\* items[:count]
FirstItems(items, count) == IF Len(items) > count THEN SubSeq(items, 1, count) ELSE items

\* ConversationStateManager.get_prioritized_questions, as the slots asked about
get_prioritized_questions(intent, collected_slots, max_questions) ==
    FirstItems(SelectSeq(priority_order(intent),
                         LAMBDA slot : slot \notin collected_slots /\ slot \in SERVICE_QUESTIONS(intent)),
               max_questions)

\* the slots _generate_targeted_questions has a question for
question_map(intent) ==
    CASE intent = PACKING_LIST               -> {"destination", "date_range", "travelers"}
      [] intent = DESTINATION_RECOMMENDATION -> {"interests", "date_range", "travelers"}
      [] intent = ATTRACTIONS                -> {"destination", "visit_duration"}
      [] OTHER                               -> {}

\* _generate_targeted_questions, as the slots asked about; missing_slots in list order
generate_targeted_questions(intent, missing_slots, max_questions) ==
    SelectSeq(FirstItems(SelectSeq(critical_fields(intent), LAMBDA slot : slot \in missing_slots),
                         max_questions),
              LAMBDA slot : slot \in question_map(intent))

\* the questions put into the reply
Ask(o, questions) == [o EXCEPT !.questions = questions]

\* _load_conversation_data: the data of the latest snapshot
load_conversation_data(snaps) == IF snaps = <<>> THEN EmptyMap ELSE snaps[Len(snaps)].conversation_data

\* _save_conversation_data: appends a snapshot; a failure is logged and swallowed
save_conversation_data(o, data, point, env) ==
    IF point \in env.failed_saves THEN [o EXCEPT !.failed_saves = @ \cup {point}]
    ELSE [o EXCEPT !.snapshots = Append(@, [intent |-> o.conversation.current_intent,
                                            phase |-> o.conversation.current_phase,
                                            conversation_data |-> data])]

related_services(intent) ==
    CASE intent = DESTINATION_RECOMMENDATION -> {PACKING_LIST, ATTRACTIONS}
      [] intent = PACKING_LIST               -> {ATTRACTIONS}
      [] intent = ATTRACTIONS                -> {PACKING_LIST}
      [] OTHER                               -> {}

is_related_service(current_intent, new_intent) == new_intent \in related_services(current_intent)

shareable_fields ==
    {"destination", "travelers", "date_range", "user_preferences", "budget_band",
     "climate_preference", "activities_planned", "family_composition", "interests", "names",
     "ages", "budget_info", "travel_style", "special_requirements", "packing_context"}

\* _extract_shareable_data
extract_shareable_data(existing_data) ==
    [field \in {f \in shareable_fields : Has(existing_data, f)} |-> existing_data[field]]

\* the outcome after a pipeline run
WithToolRun(o, data, run) ==
    [o EXCEPT !.tools_run = TRUE, !.tool_input = data, !.tool_results = run.results,
              !.weather_data = run.weather_data]

\* the outcome after an extraction and the missing-slot test on its result
WithExtraction(o, data, missing_slots, raised) ==
    [o EXCEPT !.extracted = TRUE, !.raised = raised, !.new_data = data, !.missing_slots = missing_slots]

\* the outcome after an exception in the try block around a pipeline run
PipelineFailed(o) == [o EXCEPT !.pipeline_failed = TRUE]

\* _execute_tools_and_generate_response
execute_tools_and_generate_response(o, data, env) ==
    LET intent == o.conversation.current_intent
    IN  IF intent \notin {PACKING_LIST, DESTINATION_RECOMMENDATION, ATTRACTIONS}
        THEN Reply(Enter(o, "execute_tools_and_generate_response"), "not_sure", NoPhase)
        ELSE IF env.pipeline_raises
        THEN Reply(PipelineFailed(Enter(o, "execute_tools_and_generate_response")),
                   "pipeline_issue", DATA_COLLECTION)
        ELSE Reply(save_conversation_data(
                       WithToolRun(Enter(o, "execute_tools_and_generate_response"), data,
                                   execute_tools(intent, data, env)),
                       data, "results", env),
                   "results", REFINEMENT)

\* the common second half of both transition handlers: retarget the conversation, extract
\* from the message on top of the shareable data, proceed or ask
switch_to_service(o, user_message, new_intent, existing_data, env) ==
    LET Decide(extracted, merged_data, missing_slots) ==
            IF missing_slots = {}
            THEN execute_tools_and_generate_response(Commit(extracted, new_intent, PROCESSING), merged_data, env)
            ELSE Reply(save_conversation_data(
                           Ask(extracted, get_prioritized_questions(new_intent, DOMAIN merged_data, 2)),
                           merged_data, "merged", env),
                       "questions", DATA_COLLECTION)
        Check(merged_data, missing_slots) ==
            Decide(WithExtraction(Commit(o, new_intent, DATA_COLLECTION), merged_data, missing_slots, env.raises),
                   merged_data, missing_slots)
        Merged(merged_data) == Check(merged_data, get_missing_critical_slots(new_intent, merged_data))
        Shared(shareable_data) ==
            Merged(Merge(shareable_data,
                         extract_travel_data(user_message, new_intent, shareable_data, env.llm, env.raises)))
    IN  Shared(extract_shareable_data(existing_data))

\* _handle_natural_service_transition
handle_natural_service_transition(o, user_message, new_intent, existing_data, env) ==
    switch_to_service(
        IF o.conversation.current_phase # COMPLETED
        THEN save_conversation_data(
                 Commit(Enter(o, "natural_service_transition"), o.conversation.current_intent, COMPLETED),
                 existing_data, "completion", env)
        ELSE Enter(o, "natural_service_transition"),
        user_message, new_intent, existing_data, env)

\* _handle_mid_conversation_intent_change
handle_mid_conversation_intent_change(o, user_message, new_intent, existing_data, env) ==
    switch_to_service(
        save_conversation_data(Enter(o, "mid_conversation_intent_change"), existing_data, "pre_transition", env),
        user_message, new_intent, existing_data, env)

\* _handle_intent_transition
handle_intent_transition(o, user_message, new_intent, env) ==
    LET is_natural_progression ==
            /\ o.conversation.current_phase \in {COMPLETED, REFINEMENT}
            /\ is_related_service(o.conversation.current_intent, new_intent)
    IN  IF is_natural_progression
        THEN handle_natural_service_transition(Enter(o, "intent_transition"), user_message, new_intent,
                                               load_conversation_data(o.snapshots), env)
        ELSE handle_mid_conversation_intent_change(Enter(o, "intent_transition"), user_message, new_intent,
                                                   load_conversation_data(o.snapshots), env)

\* _handle_intent_detection storing the detected task without leaving intent detection
handle_intent_detection_keeping_phase(o, user_message) ==
    LET Detected(intent) ==
            IF intent # GENERAL
            THEN Reply(Commit(Enter(o, "intent_detection"), intent, INTENT_DETECTION),
                       "service_intro", DATA_COLLECTION)
            ELSE Reply(Enter(o, "intent_detection"), "service_menu", NoPhase)
    IN  Detected(detected_of(user_message))

\* _handle_intent_detection
handle_intent_detection(o, user_message) ==
    LET Detected(intent) ==
            IF intent # GENERAL
            THEN Reply(Commit(Enter(o, "intent_detection"), intent, DATA_COLLECTION),
                       "service_intro", DATA_COLLECTION)
            ELSE Reply(Enter(o, "intent_detection"), "service_menu", NoPhase)
    IN  Detected(detected_of(user_message))

\* _handle_data_collection_phase
handle_data_collection_phase(o, user_message, existing_data, env) ==
    LET intent == o.conversation.current_intent
        Decide(saved, missing_slots) ==
            IF missing_slots = {}
            THEN Reply(Commit(saved, intent, PROCESSING), "ready", PROCESSING)
            ELSE Reply(Ask(saved, generate_targeted_questions(intent, missing_slots, 2)),
                       "questions", DATA_COLLECTION)
        Check(new_data, missing_slots) ==
            Decide(save_conversation_data(
                       WithExtraction(Enter(o, "data_collection_phase"), new_data, missing_slots, env.raises),
                       new_data, "collected", env),
                   missing_slots)
        Extracted(new_data) == Check(new_data, get_missing_critical_slots(intent, new_data))
    IN  Extracted(extract_travel_data(user_message, intent, existing_data, env.llm, env.raises))

\* _handle_processing_phase
handle_processing_phase(o, user_message, existing_data, env) ==
    LET intent == o.conversation.current_intent
    IN  IF create_scratchpad(intent, existing_data) = NoScratchpad
        THEN Reply(Commit(Enter(o, "processing_phase"), intent, REFINEMENT), "processing_notice", REFINEMENT)
        ELSE IF env.pipeline_raises
        THEN Reply(Commit([PipelineFailed(Enter(o, "processing_phase")) EXCEPT !.exception_text = TRUE],
                          intent, REFINEMENT),
                   "static_fallback", REFINEMENT)
        ELSE Reply(Commit(WithToolRun(Enter(o, "processing_phase"), existing_data,
                                      execute_tools(intent, existing_data, env)),
                          intent, REFINEMENT),
                   "results", REFINEMENT)

\* the outcome after the loop over the quality checks
WithVerdicts(o, quality_checks, existing_data) ==
    [o EXCEPT !.checks_passed = {c \in quality_checks : quality_verdict(c, existing_data) = "passed"},
              !.checks_failed = {c \in quality_checks : quality_verdict(c, existing_data) = "failed"}]

\* _run_pre_finalize_checks staying in refinement when a check fails
run_pre_finalize_checks_strict(o, existing_data) ==
    LET intent == o.conversation.current_intent
        Finish(checked) ==
            IF checked.checks_failed # {} THEN Reply(checked, "quality_summary", REFINEMENT)
            ELSE Reply(Commit(checked, intent, COMPLETED), "quality_summary", COMPLETED)
    IN  IF create_scratchpad(intent, existing_data) = NoScratchpad
        THEN Reply(Commit(Enter(o, "pre_finalize_checks"), intent, COMPLETED), "completed", COMPLETED)
        ELSE Finish(WithVerdicts(Enter(o, "pre_finalize_checks"),
                                 Range(create_quality_checks(intent)), existing_data))

\* _run_pre_finalize_checks, the quality gate
run_pre_finalize_checks(o, existing_data) ==
    LET intent == o.conversation.current_intent
    IN  IF create_scratchpad(intent, existing_data) = NoScratchpad
        THEN Reply(Commit(Enter(o, "pre_finalize_checks"), intent, COMPLETED), "completed", COMPLETED)
        ELSE Reply(Commit(WithVerdicts(Enter(o, "pre_finalize_checks"),
                                       Range(create_quality_checks(intent)), existing_data),
                          intent, COMPLETED),
                   "quality_summary", COMPLETED)

completion_signals == {<<"l","o","o","k","s"," ","g","o","o","d">>, <<"p","e","r","f","e","c","t">>, <<"t","h","a","n","k","s">>, <<"t","h","a","t","'","s"," ","g","r","e","a","t">>, <<"n","o"," ","c","h","a","n","g","e","s">>, <<"f","i","n","a","l","i","z","e">>}

has_completion_signal(user_message) == ContainsAny(Lower(user_message), completion_signals)

CompletionTable == Tabulated([t \in TabulatedMessages |-> has_completion_signal(t)])

\* _handle_refinement_phase taking every message for a completion signal
handle_refinement_phase_completing(o, user_message, existing_data) ==
    run_pre_finalize_checks(Enter(o, "refinement_phase"), existing_data)

\* _handle_refinement_phase
handle_refinement_phase(o, user_message, existing_data) ==
    IF CompletionTable[user_message]
    THEN run_pre_finalize_checks(Enter(o, "refinement_phase"), existing_data)
    ELSE Reply(Enter(o, "refinement_phase"), "modification_stub", REFINEMENT)

\* _handle_completed_phase
handle_completed_phase(o, user_message, existing_data) ==
    Reply(Enter(o, "completed_phase"), "new_service_menu", NoPhase)

\* _handle_structured_phases
handle_structured_phases(o, user_message, existing_data, env) ==
    LET Dispatch(entered, current_phase) ==
            CASE current_phase = DATA_COLLECTION ->
                     handle_data_collection_phase(entered, user_message, existing_data, env)
              [] current_phase = PROCESSING ->
                     handle_processing_phase(entered, user_message, existing_data, env)
              [] current_phase = REFINEMENT ->
                     handle_refinement_phase(entered, user_message, existing_data)
              [] current_phase = COMPLETED ->
                     handle_completed_phase(entered, user_message, existing_data)
              [] OTHER -> Reply(entered, "currently_helping", NoPhase)
    IN  Dispatch(Enter(o, "structured_phases"), o.conversation.current_phase)

\* the condition of process_user_message under which the turn is handed to the transition handler
intent_transition_taken(current_intent, current_phase, user_message, detected_intent) ==
    /\ detected_intent # current_intent
    /\ detected_intent # GENERAL
    /\ allowed_of(current_intent, current_phase, user_message)

\* the outcome after validation
WithValidation(o, verdict) == [o EXCEPT !.validation = verdict]

\* the `except Exception as e` of process_user_message: the reply quotes str(e)
handle_exception(o) == [Reply(o, "error", NoPhase) EXCEPT !.exception_text = TRUE]

\* process_user_message going on with a message that fails validation
process_user_message_unvalidated(conv, snaps, user_message, env) ==
    LET Validated(o) == WithValidation(o, IF valid_of(user_message, conv.current_intent) THEN "passed" ELSE "refused")
        Detected(detected_intent) ==
            IF intent_transition_taken(conv.current_intent, conv.current_phase, user_message, detected_intent)
            THEN handle_intent_transition(Outcome(conv, snaps), user_message, detected_intent, env)
            ELSE IF conv.current_intent = GENERAL
            THEN handle_intent_detection(Validated(Outcome(conv, snaps)), user_message)
            ELSE handle_structured_phases(Validated(Outcome(conv, snaps)), user_message,
                                          load_conversation_data(snaps), env)
    IN  IF env.query_raises THEN handle_exception(Outcome(conv, snaps))
        ELSE IF ~conv.exists THEN Reply(Outcome(conv, snaps), "not_found", NoPhase)
        ELSE Detected(detected_of(user_message))

\* process_user_message
process_user_message(conv, snaps, user_message, env) ==
    LET Detected(detected_intent) ==
            IF intent_transition_taken(conv.current_intent, conv.current_phase, user_message, detected_intent)
            THEN handle_intent_transition(Outcome(conv, snaps), user_message, detected_intent, env)
            ELSE IF ~valid_of(user_message, conv.current_intent)
            THEN Reply(WithValidation(Outcome(conv, snaps), "refused"), "refusal", NoPhase)
            ELSE IF conv.current_intent = GENERAL
            THEN handle_intent_detection(WithValidation(Outcome(conv, snaps), "passed"), user_message)
            ELSE handle_structured_phases(WithValidation(Outcome(conv, snaps), "passed"), user_message,
                                          load_conversation_data(snaps), env)
    IN  IF env.query_raises THEN handle_exception(Outcome(conv, snaps))
        ELSE IF ~conv.exists THEN Reply(Outcome(conv, snaps), "not_found", NoPhase)
        ELSE Detected(detected_of(user_message))

(***************************************************************************)
(* start_conversation (app/server/routes/conversations.py)                 *)
(***************************************************************************)
NoIntent == "none"

StartMessages == {<<>>, <<"I"," ","n","e","e","d"," ","a"," ","p","a","c","k","i","n","g"," ","l","i","s","t"," ","f","o","r"," ","T","o","k","y","o"," ","f","o","r"," ","5"," ","d","a","y","s">>, <<"y","e","s">>}

\* StartConversationRequest: initial_message and initial_intent are optional
StartRequests ==
    {[initial_message |-> t, initial_intent |-> i] :
        t \in StartMessages, i \in {NoIntent, DESTINATION_RECOMMENDATION, PACKING_LIST, ATTRACTIONS}}

\* the conversation row that start_conversation creates
start_conversation(request) ==
    LET Created(detected_intent) ==
            [exists |-> TRUE, status |-> ACTIVE, current_intent |-> detected_intent,
             current_phase |-> IF detected_intent = GENERAL THEN INTENT_DETECTION ELSE DATA_COLLECTION]
    IN  Created(IF request.initial_message # <<>> THEN detected_of(request.initial_message)
                ELSE IF request.initial_intent # NoIntent THEN request.initial_intent
                ELSE GENERAL)

(***************************************************************************)
(* State                                                                   *)
(***************************************************************************)
VARIABLES
    conversation,   \* the conversation row: exists, status, current_intent, current_phase
    snapshots,      \* the state_snapshots rows of the conversation, oldest first
    initial_turn,   \* the user message of the turn row that start_conversation writes
    route_turns,    \* the turn rows that the send_message route has written
    last,           \* what the latest call did
    turns,          \* messages processed so far
    deviations,     \* environment deviations so far
    probe           \* input and result of the pure-function harnesses

vars == <<conversation, snapshots, initial_turn, route_turns, last, turns, deviations, probe>>

MaxTurns == 4

NoConversation ==
    [exists |-> FALSE, status |-> ACTIVE, current_intent |-> GENERAL, current_phase |-> INTENT_DETECTION]

\* the log of one call: the outcome of the turn and the state it started from
TurnLog(op, user_message, detected_intent, conv, snaps, o) ==
    [op |-> op, user_message |-> user_message, detected_intent |-> detected_intent,
     existed |-> conv.exists, intent_before |-> conv.current_intent, phase_before |-> conv.current_phase,
     snapshots_before |-> Len(snaps), existing_data |-> load_conversation_data(snaps),
     handlers |-> o.handlers, commits |-> o.commits, validation |-> o.validation,
     extracted |-> o.extracted, raised |-> o.raised, new_data |-> o.new_data, missing_slots |-> o.missing_slots,
     tools_run |-> o.tools_run, tool_input |-> o.tool_input, tool_results |-> o.tool_results, weather_data |-> o.weather_data,
     checks_passed |-> o.checks_passed, checks_failed |-> o.checks_failed,
     next_phase |-> o.next_phase, reply |-> o.reply, questions |-> o.questions,
     failed_saves |-> o.failed_saves, exception_text |-> o.exception_text,
     pipeline_failed |-> o.pipeline_failed, context |-> o.context]

NoProbe == [kind |-> "none"]

\* the conversation before POST /conversations
InitSession ==
    /\ conversation = NoConversation
    /\ snapshots = <<>>
    /\ initial_turn = <<>>
    /\ route_turns = 0
    /\ last = TurnLog("none", <<>>, GENERAL, NoConversation, <<>>, Outcome(NoConversation, <<>>))
    /\ turns = 0
    /\ deviations = 0

Init ==
    /\ InitSession
    /\ probe = NoProbe

\* the row and the log after start_conversation
Started(request, conv) ==
    /\ conversation' = conv
    /\ initial_turn' = request.initial_message
    /\ last' = TurnLog("start", request.initial_message, conv.current_intent, conversation, snapshots,
                       Reply(Outcome(conv, snapshots), "greeting", conv.current_phase))

\* POST /conversations
StartConversation ==
    /\ ~conversation.exists
    /\ \E request \in StartRequests : Started(request, start_conversation(request))
    /\ UNCHANGED <<snapshots, route_turns, turns, deviations, probe>>

\* the row, the snapshots and the log after process_user_message
Processed(user_message, o) ==
    /\ conversation' = o.conversation
    /\ snapshots' = o.snapshots
    /\ last' = TurnLog("message", user_message, detected_of(user_message), conversation, snapshots, o)

\* one call of process_user_message, in any environment the deviation budget allows
ProcessUserMessage ==
    /\ turns < MaxTurns
    /\ \E user_message \in UserMessages, env \in TurnEnvironments :
          /\ deviations + Deviations(env) <= MaxDeviations
          /\ Processed(user_message, process_user_message(conversation, snapshots, user_message, env))
          /\ deviations' = deviations + Deviations(env)
    /\ turns' = turns + 1
    /\ UNCHANGED <<initial_turn, route_turns, probe>>

Next ==
    \/ StartConversation
    \/ ProcessUserMessage

Spec == Init /\ [][Next]_vars

\* the variables of the conversation, untouched by the harnesses of the pure functions
session == <<conversation, snapshots, initial_turn, route_turns, last, turns, deviations>>

(***************************************************************************)
(* Harness of extract_travel_data: a chain of calls, each seeded with the  *)
(* result of the one before.                                               *)
(***************************************************************************)
MaxCalls == 2

\* data: the result of the latest call; before: the data it was seeded with;
\* supplied: what the extraction of that call supplied
ExtractionProbe(calls, before, supplied, data) ==
    [kind |-> "extraction", calls |-> calls, before |-> before, supplied |-> supplied, data |-> data]

\* the probe with the task of the call and what its message speaks of
Called(extraction, intent, spoken_of) ==
    [kind |-> extraction.kind, calls |-> extraction.calls, before |-> extraction.before,
     supplied |-> extraction.supplied, data |-> extraction.data,
     intent |-> intent, spoken_of |-> spoken_of]

InitExtraction ==
    /\ InitSession
    /\ probe = Called(ExtractionProbe(0, EmptyMap, EmptyMap, EmptyMap), GENERAL, {})

ExtractTravelData ==
    /\ probe.calls < MaxCalls
    /\ \E user_message \in UserMessages \cup MonthMessages, intent \in ConversationIntent,
          llm \in LLMAnswers, raises \in BOOLEAN :
          probe' = Called(ExtractionProbe(probe.calls + 1, probe.data,
                                          IF raises THEN EmptyMap ELSE extracted_update(user_message, intent, llm),
                                          extract_travel_data(user_message, intent, probe.data, llm, raises)),
                          intent, mentions_of(user_message))
    /\ UNCHANGED session

SpecExtraction == InitExtraction /\ [][ExtractTravelData]_vars

(***************************************************************************)
(* Harness of extract_travel_data with its LLM fallback: a chain of calls  *)
(* in which the replies of the language model are of one kind per call and *)
(* an exception may be raised at one place of the call.                    *)
(***************************************************************************)
FallbackMessages ==
    {<<"s","h","o","w"," ","m","e"," ","a","t","t","r","a","c","t","i","o","n","s"," ","i","n"," ","R","o","m","e">>, <<"v","i","s","i","t","i","n","g"," ","N","e","a","r"," ","D","e","n","v","e","r">>, <<"2"," ","a","d","u","l","t","s">>,
     <<"I"," ","n","e","e","d"," ","a"," ","p","a","c","k","i","n","g"," ","l","i","s","t"," ","f","o","r"," ","T","o","k","y","o"," ","f","o","r"," ","5"," ","d","a","y","s">>}

\* where an exception is raised: nowhere, in _extract_with_patterns, in
\* _get_missing_critical_data_from_extraction, in the loop of _extract_with_llm_fallback,
\* or in the merge
ExtractionFaults == {"none", "patterns", "missing_critical", "llm_fallback", "merge"}

\* the faults that reach the handler of extract_travel_data
HandlerFaults == {"patterns", "missing_critical", "merge"}

\* before: the data the call was seeded with; patterns: the pattern results; missing:
\* the fields asked of the LLM; llm: what the fallback returned; data: the result
FallbackProbe(calls, intent, before, patterns, missing, reply_kind, llm, fault, data) ==
    [kind |-> "fallback", calls |-> calls, intent |-> intent, before |-> before,
     patterns |-> patterns, missing |-> missing, reply_kind |-> reply_kind, llm |-> llm,
     fault |-> fault, data |-> data]

InitFallback ==
    /\ InitSession
    /\ probe = FallbackProbe(0, GENERAL, EmptyMap, EmptyMap, {}, "value", EmptyMap, "none", EmptyMap)

ExtractWithFallback ==
    /\ probe.calls < MaxCalls
    /\ \E user_message \in FallbackMessages, intent \in ConversationIntent,
          reply_kind \in ReplyKinds, fault \in ExtractionFaults :
          LET extracted == patterns_of(user_message, intent)
              missing == get_missing_critical_data_from_extraction(extracted, intent)
              llm_extracted == IF fault = "llm_fallback" THEN EmptyMap ELSE llm_field_data(reply_kind)
          IN  /\ fault = "llm_fallback" => missing # {}
              /\ probe' = FallbackProbe(probe.calls + 1, intent, probe.data,
                                        IF fault = "patterns" THEN EmptyMap ELSE extracted,
                                        IF fault \in {"patterns", "missing_critical"} THEN {} ELSE missing,
                                        reply_kind,
                                        IF fault \in {"patterns", "missing_critical"} THEN EmptyMap
                                        ELSE extract_with_llm_fallback(missing, llm_extracted),
                                        fault,
                                        extract_travel_data(user_message, intent, probe.data,
                                                            llm_extracted, fault \in HandlerFaults))
    /\ UNCHANGED session

SpecFallback == InitFallback /\ [][ExtractWithFallback]_vars

(***************************************************************************)
(* Harness of the two missing-critical-field checks: a packing slot map    *)
(* with destination and travelers and any date_range.                      *)
(***************************************************************************)
\* the values a date_range field may hold: one falsy, one truthy
DateFieldValues(field) ==
    CASE field = "duration_days" -> {0, 5}
      [] field = "flexible"      -> {FALSE, TRUE}
      [] field = "month"         -> {<<>>, <<"J","u","n","e">>}
      [] field = "season"        -> {<<>>, <<"S","u","m","m","e","r">>}
      [] OTHER                   -> {<<>>, <<"2","0","2","5","-","0","6","-","0","1">>}

\* a field absent, falsy or truthy
FieldChoices(field) == {EmptyMap} \cup {field :> v : v \in DateFieldValues(field)}

\* every date_range dict: each of the six fields absent, falsy or truthy
DateRanges ==
    {a @@ b @@ c @@ d @@ e @@ f :
        a \in FieldChoices("start"), b \in FieldChoices("end"), c \in FieldChoices("duration_days"),
        d \in FieldChoices("flexible"), e \in FieldChoices("month"), f \in FieldChoices("season")}

\* a packing slot map in which only date_range may be missing
WithDateRange(date_range) ==
    ("destination" :> <<"T","o","k","y","o">>) @@ ("travelers" :> [adults |-> 2, kids |-> 0]) @@ ("date_range" :> date_range)

DateRangeProbe(date_range, checked, extraction_missing, slots_missing) ==
    [kind |-> "date_range", date_range |-> date_range, checked |-> checked,
     extraction_missing |-> extraction_missing, slots_missing |-> slots_missing]

InitDateRange ==
    /\ InitSession
    /\ \E date_range \in DateRanges :
          probe = DateRangeProbe(date_range, FALSE, {}, {})

\* both checks applied to the same slot map
CheckMissingCritical ==
    /\ ~probe.checked
    /\ probe' = DateRangeProbe(probe.date_range, TRUE,
                               get_missing_critical_data_from_extraction(WithDateRange(probe.date_range), PACKING_LIST),
                               get_missing_critical_slots(PACKING_LIST, WithDateRange(probe.date_range)))
    /\ UNCHANGED session

SpecDateRange == InitDateRange /\ [][CheckMissingCritical]_vars



(***************************************************************************)
(* Harness of get_missing_critical_slots: any task kind, a slot map whose  *)
(* critical slots are each absent, empty or filled; the check is applied,  *)
(* then one slot is deleted and the check applied again.                   *)
(***************************************************************************)
\* a slot absent, or holding one of the given values
SlotChoices(slot, values) == {EmptyMap} \cup {slot :> v : v \in values}

SlotDateRanges ==
    {EmptyMap, [duration_days |-> 5], [duration_days |-> 0], [flexible |-> TRUE],
     [start |-> <<"2","0","2","5","-","0","6","-","0","1">>], [month |-> <<"J","u","n","e">>], [season |-> <<"S","u","m","m","e","r">>, duration_days |-> 5]}

SlotMaps ==
    {a @@ b @@ c @@ d :
        a \in SlotChoices("destination", {<<>>, <<"T","o","k","y","o">>}),
        b \in SlotChoices("date_range", SlotDateRanges),
        c \in SlotChoices("travelers", {EmptyMap, [adults |-> 2, kids |-> 0]}),
        d \in SlotChoices("user_preferences", {<<>>, <<"romantic">>})}

\* del data[slot]
Without(data, slot) == [key \in DOMAIN data \ {slot} |-> data[key]]

NoSlot == "none"

\* before: the slot map of the first check; removed: the slot deleted since
SlotsProbe(intent, before, removed, checked, missing) ==
    [kind |-> "slots", intent |-> intent, before |-> before, removed |-> removed,
     data |-> IF removed = NoSlot THEN before ELSE Without(before, removed),
     checked |-> checked, missing |-> missing]

InitMissingSlots ==
    /\ InitSession
    /\ \E intent \in ConversationIntent, data \in SlotMaps :
          probe = SlotsProbe(intent, data, NoSlot, FALSE, {})

GetMissingCriticalSlots ==
    /\ ~probe.checked
    /\ probe' = SlotsProbe(probe.intent, probe.before, NoSlot, TRUE,
                           get_missing_critical_slots(probe.intent, probe.before))
    /\ UNCHANGED session

RemoveSlot ==
    /\ probe.checked
    /\ probe.removed = NoSlot
    /\ \E slot \in DOMAIN probe.before :
          probe' = SlotsProbe(probe.intent, probe.before, slot, TRUE,
                              get_missing_critical_slots(probe.intent, Without(probe.before, slot)))
    /\ UNCHANGED session

NextMissingSlots == GetMissingCriticalSlots \/ RemoveSlot

SpecMissingSlots == InitMissingSlots /\ [][NextMissingSlots]_vars

(***************************************************************************)
(* The other entry points that look a conversation up by its id: the       *)
(* send_message route and resume_conversation.  Together with              *)
(* start_conversation and process_user_message they are exercised on a     *)
(* conversation that does not exist yet and on one that does.              *)
(***************************************************************************)
\* send_message without the lookup of the conversation
send_message_unchecked(conv, snaps, message, query_raises) ==
    LET Detected(detected_intent) ==
            IF conv.current_intent # GENERAL
            THEN Reply(Outcome(conv, snaps), "placeholder", NoPhase)
            ELSE IF detected_intent # GENERAL
            THEN Reply(Ask(Commit(Outcome(conv, snaps), detected_intent, DATA_COLLECTION),
                           get_prioritized_questions(detected_intent, {}, 3)),
                       "service_intro", NoPhase)
            ELSE Reply(Outcome(conv, snaps), "service_menu", NoPhase)
    IN  IF query_raises THEN Reply(Outcome(conv, snaps), "http_500", NoPhase)
        ELSE Detected(detect_intent_from_message(message))

\* the send_message route: the outcome; a turn row is written when the reply is not an HTTP error
send_message(conv, snaps, message, query_raises) ==
    LET Detected(detected_intent) ==
            IF conv.current_intent # GENERAL
            THEN Reply(Outcome(conv, snaps), "placeholder", NoPhase)
            ELSE IF detected_intent # GENERAL
            THEN Reply(Ask(Commit(Outcome(conv, snaps), detected_intent, DATA_COLLECTION),
                           get_prioritized_questions(detected_intent, {}, 3)),
                       "service_intro", NoPhase)
            ELSE Reply(Outcome(conv, snaps), "service_menu", NoPhase)
    IN  IF query_raises THEN Reply(Outcome(conv, snaps), "http_500", NoPhase)
        ELSE IF ~conv.exists THEN Reply(Outcome(conv, snaps), "http_404", NoPhase)
        ELSE IF conv.status # ACTIVE THEN Reply(Outcome(conv, snaps), "http_400", NoPhase)
        ELSE Detected(detect_intent_from_message(message))

\* the dict that resume_conversation returns for an active conversation; synopsis_from
\* is the number of the snapshot row whose context_synopsis it carries, 0 for None
ResumeContext(conv, snaps, turn_count) ==
    [resumable |-> TRUE, intent |-> conv.current_intent, phase |-> conv.current_phase,
     collected_data |-> load_conversation_data(snaps), synopsis_from |-> Len(snaps),
     turn_count |-> turn_count]

\* resume_conversation moving the conversation back to data collection
resume_conversation_restarting(conv, snaps, turn_count, query_raises) ==
    IF query_raises THEN handle_exception(Outcome(conv, snaps))
    ELSE IF ~conv.exists THEN Reply(Outcome(conv, snaps), "error_not_found", NoPhase)
    ELSE IF conv.status # ACTIVE THEN Reply(Outcome(conv, snaps), "error_not_active", NoPhase)
    ELSE [Reply(Commit(Outcome(conv, snaps), conv.current_intent,
                       IF conv.current_intent = GENERAL THEN INTENT_DETECTION ELSE DATA_COLLECTION),
                "resume_context", NoPhase)
          EXCEPT !.context = ResumeContext(conv, snaps, turn_count)]

\* resume_conversation: an error, or the context of the conversation; turn_count is the
\* number of turn rows of the conversation
resume_conversation(conv, snaps, turn_count, query_raises) ==
    IF query_raises THEN handle_exception(Outcome(conv, snaps))
    ELSE IF ~conv.exists THEN Reply(Outcome(conv, snaps), "error_not_found", NoPhase)
    ELSE IF conv.status # ACTIVE THEN Reply(Outcome(conv, snaps), "error_not_active", NoPhase)
    ELSE [Reply(Outcome(conv, snaps), "resume_context", NoPhase)
          EXCEPT !.context = ResumeContext(conv, snaps, turn_count)]

\* the turn rows of the conversation: the one start_conversation writes and those of
\* the send_message route
TurnRows(conv, sent) == IF conv.exists THEN 1 + sent ELSE 0

MaxLookups == 4

LookupMessages == {<<"I"," ","n","e","e","d"," ","a"," ","p","a","c","k","i","n","g"," ","l","i","s","t"," ","f","o","r"," ","T","o","k","y","o"," ","f","o","r"," ","5"," ","d","a","y","s">>, <<"y","e","s">>, <<"l","o","o","k","s"," ","g","o","o","d">>}

\* the environment in which nothing fails, and the one in which the lookup query raises
LookupEnvironments == {NominalEnvironment, [NominalEnvironment EXCEPT !.query_raises = TRUE]}

\* process_user_message
LookupProcessUserMessage ==
    /\ \E user_message \in LookupMessages, env \in LookupEnvironments :
          Processed(user_message, process_user_message(conversation, snapshots, user_message, env))
    /\ UNCHANGED <<initial_turn, route_turns>>

\* POST /conversations/{conversation_id}/message
SendMessage ==
    /\ \E message \in LookupMessages, query_raises \in BOOLEAN :
          LET o == send_message(conversation, snapshots, message, query_raises)
          IN  /\ conversation' = o.conversation
              /\ route_turns' = IF o.reply \in {"http_400", "http_404", "http_500"}
                                 THEN route_turns ELSE route_turns + 1
              /\ last' = TurnLog("send_message", message, detect_intent_from_message(message),
                                 conversation, snapshots, o)
    /\ UNCHANGED <<snapshots, initial_turn>>

ResumeConversation ==
    /\ \E query_raises \in BOOLEAN :
          LET o == resume_conversation(conversation, snapshots, TurnRows(conversation, route_turns),
                                       query_raises)
          IN  /\ conversation' = o.conversation
              /\ snapshots' = o.snapshots
              /\ last' = TurnLog("resume", <<>>, GENERAL, conversation, snapshots, o)
    /\ UNCHANGED <<initial_turn, route_turns>>

Lookup ==
    /\ turns < MaxLookups
    /\ \/ LookupProcessUserMessage
       \/ SendMessage
       \/ ResumeConversation
    /\ turns' = turns + 1
    /\ UNCHANGED <<deviations, probe>>

NextLookup ==
    \/ StartConversation
    \/ Lookup

SpecLookup == Init /\ [][NextLookup]_vars

(***************************************************************************)
(* Harness of the intent classifier: detect_intent_from_message applied,   *)
(* more than once, to messages put together from mixed-case fragments.     *)
(***************************************************************************)
DetectFragments ==
    {<<"R","e","c","o","m","m","e","n","d","a","t","i","o","n","s">>, <<"W","h","e","r","e"," ","T","o"," ","G","o">>, <<"D","E","S","T","I","N","A","T","I","O","N">>, <<"P","A","C","K","I","N","G">>, <<"L","u","g","g","a","g","e">>,
     <<"S","i","g","h","t","s","e","e","i","n","g">>, <<"I","t","i","n","e","r","a","r","y">>, <<"o","v","e","r","s","e","a","s">>, <<"h","e","l","l","o">>, <<"b","u","d","g","e","t">>}

DetectMessages ==
    {<<>>} \cup DetectFragments \cup {a \o <<" ">> \o b : a \in DetectFragments, b \in DetectFragments}

DetectProbe(message, results) == [kind |-> "detect", message |-> message, results |-> results]

InitDetect ==
    /\ InitSession
    /\ \E message \in DetectMessages : probe = DetectProbe(message, <<>>)

DetectIntentFromMessage ==
    /\ probe.kind = "detect"
    /\ Len(probe.results) < MaxCalls
    /\ probe' = DetectProbe(probe.message, Append(probe.results, detect_intent_from_message(probe.message)))
    /\ UNCHANGED session

SpecDetect == InitDetect /\ [][DetectIntentFromMessage]_vars

(***************************************************************************)
(* Two requests for one conversation, each going through the steps of its  *)
(* handler: load the row and the latest snapshot, extract and decide,      *)
(* write the snapshots, update the row.  The handlers are coroutines of    *)
(* one event loop and contain no await, so a handler that has started runs *)
(* to its end before another one starts.                                   *)
(***************************************************************************)
RequestIds == {1, 2}

RequestMessages ==
    {<<"I"," ","n","e","e","d"," ","a"," ","p","a","c","k","i","n","g"," ","l","i","s","t"," ","f","o","r"," ","T","o","k","y","o"," ","f","o","r"," ","5"," ","d","a","y","s">>, <<"2"," ","a","d","u","l","t","s">>, <<"y","e","s">>, <<"s","h","o","w"," ","m","e"," ","a","t","t","r","a","c","t","i","o","n","s"," ","i","n"," ","R","o","m","e">>}

\* a handler that is between its first and its last step
Running(request) == request.pc \notin {"waiting", "done"}

\* every handler starts whenever its request arrives
event_loop_interleaving(requests, r) == TRUE

\* the event loop starts the handler of a request when no other handler is running
event_loop_accepts(requests, r) == \A q \in RequestIds \ {r} : ~Running(requests[q])

Waiting(message) ==
    [message |-> message, pc |-> "waiting", conversation |-> NoConversation, snapshots |-> <<>>,
     outcome |-> Outcome(NoConversation, <<>>)]

\* base: the row when the requests arrive; order: the requests in the order of their start
RequestsProbe(base, order, requests) ==
    [kind |-> "requests", base |-> base, order |-> order, requests |-> requests]

InitRequests ==
    /\ \E request \in StartRequests, first \in RequestMessages, second \in RequestMessages :
          /\ conversation = start_conversation(request)
          /\ initial_turn = request.initial_message
          /\ probe = RequestsProbe(start_conversation(request), <<>>,
                                   [r \in RequestIds |-> Waiting(IF r = 1 THEN first ELSE second)])
    /\ snapshots = <<>>
    /\ route_turns = 0
    /\ last = TurnLog("none", <<>>, GENERAL, NoConversation, <<>>, Outcome(NoConversation, <<>>))
    /\ turns = 0
    /\ deviations = 0

\* the request after a step of its handler
Stepped(r, request, order) ==
    probe' = RequestsProbe(probe.base, order, [probe.requests EXCEPT ![r] = request])

\* the query for the row and _load_conversation_data
LoadRequest(r) ==
    /\ probe.requests[r].pc = "waiting"
    /\ event_loop_accepts(probe.requests, r)
    /\ Stepped(r, [probe.requests[r] EXCEPT !.pc = "loaded", !.conversation = conversation,
                                            !.snapshots = snapshots],
               Append(probe.order, r))
    /\ UNCHANGED session

\* the extraction and the decisions of process_user_message on what was loaded
ExtractRequest(r) ==
    /\ probe.requests[r].pc = "loaded"
    /\ Stepped(r, [probe.requests[r] EXCEPT
                      !.pc = "extracted",
                      !.outcome = process_user_message(probe.requests[r].conversation,
                                                       probe.requests[r].snapshots,
                                                       probe.requests[r].message, NominalEnvironment)],
               probe.order)
    /\ UNCHANGED session

\* _save_conversation_data: the snapshots of this call are added to the table
SaveRequest(r) ==
    /\ probe.requests[r].pc = "extracted"
    /\ snapshots' = snapshots \o SubSeq(probe.requests[r].outcome.snapshots,
                                        Len(probe.requests[r].snapshots) + 1,
                                        Len(probe.requests[r].outcome.snapshots))
    /\ Stepped(r, [probe.requests[r] EXCEPT !.pc = "saved"], probe.order)
    /\ UNCHANGED <<conversation, initial_turn, route_turns, last, turns, deviations>>

\* the commit of current_intent and current_phase
UpdateRequest(r) ==
    /\ probe.requests[r].pc = "saved"
    /\ conversation' = probe.requests[r].outcome.conversation
    /\ last' = TurnLog("message", probe.requests[r].message, detected_of(probe.requests[r].message),
                       probe.requests[r].conversation, probe.requests[r].snapshots,
                       probe.requests[r].outcome)
    /\ turns' = turns + 1
    /\ Stepped(r, [probe.requests[r] EXCEPT !.pc = "done"], probe.order)
    /\ UNCHANGED <<snapshots, initial_turn, route_turns, deviations>>

NextRequests ==
    \E r \in RequestIds :
        \/ LoadRequest(r)
        \/ ExtractRequest(r)
        \/ SaveRequest(r)
        \/ UpdateRequest(r)

SpecRequests == InitRequests /\ [][NextRequests]_vars

(***************************************************************************)
(* Conversations in which the user asks the current task to go on, in      *)
(* words that the lexicon of another task matches.                         *)
(***************************************************************************)
ContinuationTurnMessages ==
    ContinuationMessages
    \cup {<<"I"," ","n","e","e","d"," ","a"," ","p","a","c","k","i","n","g"," ","l","i","s","t"," ","f","o","r"," ","T","o","k","y","o"," ","f","o","r"," ","5"," ","d","a","y","s">>, <<"2"," ","a","d","u","l","t","s">>, <<"l","o","o","k","s"," ","g","o","o","d">>}

\* one call of process_user_message in the nominal environment
ContinueService ==
    /\ turns < MaxTurns
    /\ \E user_message \in ContinuationTurnMessages :
          Processed(user_message, process_user_message(conversation, snapshots, user_message, NominalEnvironment))
    /\ turns' = turns + 1
    /\ UNCHANGED <<initial_turn, route_turns, deviations, probe>>

NextContinuation ==
    \/ StartConversation
    \/ ContinueService

SpecContinuation == Init /\ [][NextContinuation]_vars

(***************************************************************************)
(* The result formatters (app/agents/orchestrator.py 968-1295).  An entry  *)
(* of tool_results is abstracted to its tool name, its success flag, its   *)
(* error (None or a text), its payload (None, or the set of the payload    *)
(* fields that are present) and, for the destination tool, the items of    *)
(* the "recommendations" list.  A formatter returns the parts of the text  *)
(* it wrote, or raises.                                                    *)
(***************************************************************************)
NoPayload == [is_none |-> TRUE, fields |-> {}]

PayloadOf(fields) == [is_none |-> FALSE, fields |-> fields]

ResultEntry(tool_name, success, error, data, items) ==
    [tool_name |-> tool_name, success |-> success, error |-> error, data |-> data, items |-> items]

\* bool(entry.get("data")): None and the empty dict are falsy
TruthyData(data) == ~data.is_none /\ data.fields # {}

\* next((r for r in tool_results if r.get("tool_name") == tool_name), None)
FindResult(tool_results, tool_name) ==
    SelectSeq(tool_results, LAMBDA r : r.tool_name = tool_name)

Formatted(sections) == [raised |-> FALSE, sections |-> sections]

FormatterRaised == [raised |-> TRUE, sections |-> {}]

\* _format_packing_results: every read of an entry or of a payload is a .get with a default
format_packing_results(tool_results, user_data) ==
    LET weather_result == FindResult(tool_results, "weather")
        city_result == FindResult(tool_results, "city_info")
        packing_result == FindResult(tool_results, "packing")
        usable(found) == found # <<>> /\ found[1].success /\ TruthyData(found[1].data)
    IN  Formatted({"header", "closing_question"}
                  \cup (IF "destination" \in DOMAIN user_data THEN {} ELSE {"your_destination"})
                  \cup (IF usable(weather_result) THEN {"weather"} ELSE {})
                  \cup (IF usable(city_result) /\ "overview" \in city_result[1].data.fields
                        THEN {"city"} ELSE {})
                  \cup (IF usable(packing_result) THEN {"packing"} ELSE {"unable", "status_list"}))

\* _format_attractions_results: the city section subscripts the entry and its payload
format_attractions_results(tool_results, user_data) ==
    LET city_result == FindResult(tool_results, "city_info")
        attractions_result == FindResult(tool_results, "attractions_finder")
        city_used == city_result # <<>> /\ city_result[1].success
        city_raises == city_used /\ (\/ city_result[1].data.is_none
                                     \/ "overview" \notin city_result[1].data.fields)
        found == attractions_result # <<>>
        usable == found /\ attractions_result[1].success /\ TruthyData(attractions_result[1].data)
        failed == found /\ ~usable /\ ~attractions_result[1].success
        error_raises == failed /\ attractions_result[1].error = "none"
    IN  IF city_raises \/ error_raises THEN FormatterRaised
        ELSE Formatted({"header"}
                       \cup (IF "destination" \in DOMAIN user_data THEN {} ELSE {"your_destination"})
                       \cup (IF city_used THEN {"city"} ELSE {})
                       \cup (IF usable
                             THEN (IF "attractions" \in attractions_result[1].data.fields
                                   THEN {"recommendations", "next_steps"}
                                   ELSE {"none_found"})
                             ELSE IF failed THEN {"trouble"}
                             ELSE {"being_generated"}))

\* rec.get(...) needs a dict; highlights[:4] needs a sequence when highlights is truthy
recommendation_raises(rec) == rec \in {"text", "dict_highlights_number"}

\* _format_destination_results: the payload of a successful entry is subscripted and read
format_destination_results(tool_results, user_data) ==
    LET dest_result == FindResult(tool_results, "destination_recommendation")
    IN  IF dest_result = <<>> \/ ~dest_result[1].success THEN Formatted({"header", "issue"})
        ELSE IF dest_result[1].data.is_none THEN FormatterRaised
        ELSE LET recommendations == IF "recommendations" \in dest_result[1].data.fields
                                    THEN dest_result[1].items ELSE <<>>
             IN  IF \E i \in DOMAIN recommendations : recommendation_raises(recommendations[i])
                 THEN FormatterRaised
                 ELSE Formatted({"header", "follow_up"}
                                \cup (IF "summary" \in dest_result[1].data.fields
                                      THEN {"summary"} ELSE {})
                                \cup (IF recommendations # <<>> THEN {"recommendations"} ELSE {}))

format_tool_results(intent, tool_results, user_data) ==
    CASE intent = PACKING_LIST -> format_packing_results(tool_results, user_data)
      [] intent = ATTRACTIONS -> format_attractions_results(tool_results, user_data)
      [] intent = DESTINATION_RECOMMENDATION -> format_destination_results(tool_results, user_data)
      [] OTHER -> Formatted({"processed"})

\* DestinationRecommendationTool._parse_llm_response keeps a parsed item when each of
\* 'destination', 'match_explanation', 'highlights' is `in` it: a key of a dict, or a
\* substring of a text
valid_recommendation(rec) == rec \in {"dict", "dict_highlights_number", "text"}

(***************************************************************************)
(* Harness of the formatters: every result list over the tools of a task.  *)
(***************************************************************************)
\* the tools of a task, in the order their entries are appended
ToolsOf(intent) ==
    CASE intent = PACKING_LIST -> <<"weather", "city_info", "packing">>
      [] intent = ATTRACTIONS -> <<"city_info", "attractions_finder">>
      [] intent = DESTINATION_RECOMMENDATION -> <<"destination_recommendation">>
      [] OTHER -> <<>>

\* the payload fields a formatter reads
PayloadFields(tool_name) ==
    CASE tool_name = "weather" -> {"summary", "avg_low"}
      [] tool_name = "city_info" -> {"overview", "highlights"}
      [] tool_name = "packing" -> {"categories", "total_items"}
      [] tool_name = "attractions_finder" -> {"attractions", "summary"}
      [] OTHER -> {"recommendations", "summary"}

\* the items of a "recommendations" list: a well-formed dict, a dict without highlights,
\* a dict whose highlights is a number, a text naming the three keys, any other text
RecommendationKinds == {"dict", "dict_without_highlights", "dict_highlights_number", "text", "text_plain"}

RecommendationLists ==
    {<<>>} \cup {<<rec>> : rec \in RecommendationKinds}

\* an entry of a tool: failed with or without an error text, or successful with no
\* payload or with any part of the payload
EntryChoices(tool_name) ==
    {ResultEntry(tool_name, FALSE, error, NoPayload, <<>>) : error \in {"none", "text"}}
    \cup {ResultEntry(tool_name, TRUE, "none", NoPayload, <<>>)}
    \cup UNION {{ResultEntry(tool_name, TRUE, "none", PayloadOf(fields), items) :
                    items \in IF tool_name = "destination_recommendation"
                                 /\ "recommendations" \in fields
                              THEN RecommendationLists ELSE {<<>>}} :
                fields \in SUBSET PayloadFields(tool_name)}

\* the entry missing, or one of its choices
EntryLists(tool_name) == {<<>>} \cup {<<entry>> : entry \in EntryChoices(tool_name)}

RECURSIVE ResultLists(_)
ResultLists(tool_names) ==
    IF tool_names = <<>> THEN {<<>>}
    ELSE {first \o rest : first \in EntryLists(Head(tool_names)), rest \in ResultLists(Tail(tool_names))}

\* an entry the tools and _execute_*_tools can append: a failure carries its error, a
\* success carries the whole payload, and the recommendations passed the tool's validation
producible(entry) ==
    IF ~entry.success THEN entry.error = "text"
    ELSE /\ ~entry.data.is_none
         /\ entry.data.fields = PayloadFields(entry.tool_name)
         /\ entry.items # <<>> \/ entry.tool_name # "destination_recommendation"
         /\ \A i \in DOMAIN entry.items : valid_recommendation(entry.items[i])

FormatSlotMaps == {EmptyMap, "destination" :> <<"R","o","m","e">>}

FormatProbe(calls, intent, tool_results, user_data, result) ==
    [kind |-> "format", calls |-> calls, intent |-> intent, tool_results |-> tool_results,
     user_data |-> user_data, result |-> result]

InitFormat ==
    /\ InitSession
    /\ probe = FormatProbe(0, GENERAL, <<>>, EmptyMap, Formatted({}))

FormatToolResults ==
    /\ probe.calls < MaxCalls
    /\ \E intent \in ConversationIntent, user_data \in FormatSlotMaps :
          \E tool_results \in ResultLists(ToolsOf(intent)) :
              probe' = FormatProbe(probe.calls + 1, intent, tool_results, user_data,
                                   format_tool_results(intent, tool_results, user_data))
    /\ UNCHANGED session

SpecFormat == InitFormat /\ [][FormatToolResults]_vars

(***************************************************************************)
(* The result cache of the tools: BaseTool (tools/base.py) and the         *)
(* execute override of AttractionsTool (tools/attractions.py).  A cache    *)
(* is a function from cache keys to stored results; the clock counts       *)
(* hours.                                                                  *)
(***************************************************************************)
\* the tools of the pipelines, by the name they pass to BaseTool.__init__
PipelineTools == {"weather", "city_info", "packing", "destination_recommendation", "attractions"}

\* settings.CACHE_TTL_HOURS
CACHE_TTL_HOURS == 6

\* cache_ttl_hours of the tool
cache_ttl_hours(name) ==
    CASE name = "attractions" -> 24
      [] name = "packing" -> 1
      [] OTHER -> CACHE_TTL_HOURS

\* keyword names of the sample calls, in the order sorted() gives them
ParamNames == <<"destination", "trip_duration_days">>

\* the keyword arguments of the sample calls, as (name, value) pairs in call order
ParamLists ==
    {<<<<"destination", "Rome">>, <<"trip_duration_days", "5">>>>,
     <<<<"trip_duration_days", "5">>, <<"destination", "Rome">>>>,
     <<<<"destination", "Rome">>>>,
     <<<<"destination", "Tokyo">>>>}

\* the pairs of a call, as a set
ParamSet(params) == {params[i] : i \in DOMAIN params}

\* sorted(params.items())
RECURSIVE sorted_params(_, _)
sorted_params(params, names) ==
    IF names = <<>> THEN <<>>
    ELSE SelectSeq(params, LAMBDA pair : pair[1] = Head(names)) \o sorted_params(params, Tail(names))

\* "|".join of the "k=v" parts
RECURSIVE JoinParts(_)
JoinParts(pairs) ==
    IF pairs = <<>> THEN <<>>
    ELSE <<Head(pairs)[1], "=", Head(pairs)[2]>> \o
         (IF Tail(pairs) = <<>> THEN <<>> ELSE <<"|">> \o JoinParts(Tail(pairs)))

\* _get_cache_key: the name, a colon and the sorted "k=v" parts joined by "|"
get_cache_key(name, params) == <<name, ":">> \o JoinParts(sorted_params(params, ParamNames))

NoTime == -1

NoResult == [none |-> TRUE]

\* ToolResult
ToolResult(success, data, error) ==
    [none |-> FALSE, success |-> success, data |-> data, error |-> error,
     cached |-> FALSE, cache_expires_at |-> NoTime]

\* what execute answers when something in it raised
ExecutionFailed == ToolResult(FALSE, 0, "Tool execution failed")

\* what _execute of a tool can give: a payload, a failed result, an exception
ToolProducts == {"payload_1", "payload_2", "failed", "raises"}

\* the result of _execute, for the products that are results
Produced(product) ==
    CASE product = "payload_1" -> ToolResult(TRUE, 1, "none")
      [] product = "payload_2" -> ToolResult(TRUE, 2, "none")
      [] OTHER -> ToolResult(FALSE, 0, "tool error")

EmptyCache == <<>>

\* cache_key in self._cache
InCache(cache, cache_key) == cache_key \in DOMAIN cache

\* self._cache[cache_key] = result
Stored(cache, cache_key, result) ==
    [k \in DOMAIN cache \cup {cache_key} |-> IF k = cache_key THEN result ELSE cache[k]]

\* del self._cache[cache_key]
Deleted(cache, cache_key) == [k \in DOMAIN cache \ {cache_key} |-> cache[k]]

\* _is_cache_valid
is_cache_valid(result, now) ==
    IF result.cache_expires_at = NoTime THEN FALSE ELSE now < result.cache_expires_at

\* _store_in_cache: the result as it is stored and returned
store_in_cache(result, ttl, now) == [result EXCEPT !.cache_expires_at = now + ttl, !.cached = FALSE]

\* one call of execute, told: the cache afterwards, the result, whether _execute ran
Executed(cache, result, invoked) == [cache |-> cache, result |-> result, invoked |-> invoked]

\* the part of execute after the cache lookup: _execute and the storing of a success
execute_and_store(cache, cache_key, ttl, product, now) ==
    IF product = "raises" THEN Executed(cache, ExecutionFailed, TRUE)
    ELSE IF Produced(product).success
    THEN Executed(Stored(cache, cache_key, store_in_cache(Produced(product), ttl, now)),
                  store_in_cache(Produced(product), ttl, now), TRUE)
    ELSE Executed(cache, Produced(product), TRUE)

\* BaseTool.execute with _get_from_cache: a valid entry is returned flagged, an expired
\* one is deleted
execute(cache, name, ttl, params, product, now) ==
    LET cache_key == get_cache_key(name, params)
    IN  IF InCache(cache, cache_key) /\ is_cache_valid(cache[cache_key], now)
        THEN Executed(Stored(cache, cache_key, [cache[cache_key] EXCEPT !.cached = TRUE]),
                      [cache[cache_key] EXCEPT !.cached = TRUE], FALSE)
        ELSE execute_and_store(IF InCache(cache, cache_key) THEN Deleted(cache, cache_key) ELSE cache,
                               cache_key, ttl, product, now)

\* AttractionsTool.execute: no try, and an expired entry stays until a success replaces it
attractions_execute(cache, name, ttl, params, product, now) ==
    LET cache_key == get_cache_key(name, params)
    IN  IF InCache(cache, cache_key) /\ is_cache_valid(cache[cache_key], now)
        THEN Executed(Stored(cache, cache_key, [cache[cache_key] EXCEPT !.cached = TRUE]),
                      [cache[cache_key] EXCEPT !.cached = TRUE], FALSE)
        ELSE IF product = "raises" THEN Executed(cache, NoResult, TRUE)
        ELSE execute_and_store(cache, cache_key, ttl, product, now)

\* get_weather_tool, get_city_info_tool, get_packing_tool, get_destination_tool give the
\* instance of the module; get_attractions_tool makes an AttractionsTool, its cache empty
get_tool(instances, name) ==
    IF name = "attractions" THEN EmptyCache ELSE instances[name]

\* one tool call of a pipeline run: the tool from its factory, then its execute
run_tool(instances, name, params, product, now) ==
    IF name = "attractions"
    THEN attractions_execute(get_tool(instances, name), name, cache_ttl_hours(name), params, product, now)
    ELSE execute(get_tool(instances, name), name, cache_ttl_hours(name), params, product, now)

\* the instances the factories keep after the call: get_attractions_tool keeps none
kept_instances(instances, name, ran) ==
    IF name = "attractions" THEN instances ELSE [instances EXCEPT ![name] = ran.cache]

(***************************************************************************)
(* Harness of the cache across pipeline runs: tool calls one after the     *)
(* other, the clock moving between them.                                   *)
(***************************************************************************)
MaxToolCalls == 2

\* the hours the clock is moved by between two calls, and how often
ClockSteps == {1, 5, 18}

MaxTicks == 3

NoToolCall == [name |-> "none"]

\* the log of one tool call
ToolCall(name, params, product, now, entry_before, ran) ==
    [name |-> name, params |-> params, cache_key |-> get_cache_key(name, params), product |-> product,
     at |-> now, entry_before |-> entry_before, result |-> ran.result, invoked |-> ran.invoked]

CacheProbe(calls, ticks, now, instances, previous, call) ==
    [kind |-> "cache", calls |-> calls, ticks |-> ticks, now |-> now, instances |-> instances,
     previous |-> previous, call |-> call]

InitCache ==
    /\ InitSession
    /\ probe = CacheProbe(0, 0, 0, [name \in PipelineTools |-> EmptyCache], NoToolCall, NoToolCall)

\* a pipeline run calls a tool
RunTool ==
    /\ probe.calls < MaxToolCalls
    /\ \E name \in PipelineTools, params \in ParamLists, product \in ToolProducts :
          LET ran == run_tool(probe.instances, name, params, product, probe.now)
              cache_key == get_cache_key(name, params)
              entry_before == IF InCache(probe.instances[name], cache_key)
                              THEN probe.instances[name][cache_key] ELSE NoResult
          IN  probe' = CacheProbe(probe.calls + 1, probe.ticks, probe.now,
                                  kept_instances(probe.instances, name, ran), probe.call,
                                  ToolCall(name, params, product, probe.now, entry_before, ran))
    /\ UNCHANGED session

\* time passes
Tick ==
    /\ \E hours \in ClockSteps :
          /\ 0 < probe.calls /\ probe.calls < MaxToolCalls
          /\ probe.ticks < MaxTicks
          /\ probe' = [probe EXCEPT !.now = @ + hours, !.ticks = @ + 1]
    /\ UNCHANGED session

NextCache ==
    \/ RunTool
    \/ Tick

SpecCache == InitCache /\ [][NextCache]_vars

(***************************************************************************)
(* Harness of two execute calls on one BaseTool with the same parameters,  *)
(* their steps interleaved: the lookup of _get_from_cache (membership,     *)
(* read, validity, deletion), _execute, _store_in_cache.                   *)
(***************************************************************************)
Callers == {1, 2}

RaceParams == <<<<"destination", "Rome">>>>

RaceKey == get_cache_key("weather", RaceParams)

RaceNow == 10

\* the caches the two calls can find: empty, a valid entry, an expired entry
RaceCaches ==
    {EmptyCache,
     Stored(EmptyCache, RaceKey, store_in_cache(Produced("payload_1"), CACHE_TTL_HOURS, RaceNow - 1)),
     Stored(EmptyCache, RaceKey, store_in_cache(Produced("payload_1"), CACHE_TTL_HOURS, RaceNow - CACHE_TTL_HOURS))}

\* a call of execute: where it is, the entry it read, its result, what raised
Caller(pc, cached_result, result, invoked, raised_in) ==
    [pc |-> pc, cached_result |-> cached_result, result |-> result, invoked |-> invoked,
     raised_in |-> raised_in]

RaceProbe(cache, callers) == [kind |-> "race", cache |-> cache, callers |-> callers]

InitRace ==
    /\ InitSession
    /\ \E cache \in RaceCaches :
          probe = RaceProbe(cache, [c \in Callers |-> Caller("membership", NoResult, NoResult, FALSE, "none")])

\* the step of caller c: its record and the cache afterwards
Moved(c, caller, cache) ==
    probe' = RaceProbe(cache, [probe.callers EXCEPT ![c] = caller])

\* the except branch of execute
Failing(c, raised_in) ==
    Moved(c, [probe.callers[c] EXCEPT !.pc = "done", !.result = ExecutionFailed, !.raised_in = raised_in],
          probe.cache)

\* if cache_key in self._cache
Membership(c) ==
    /\ probe.callers[c].pc = "membership"
    /\ Moved(c, [probe.callers[c] EXCEPT !.pc = IF InCache(probe.cache, RaceKey) THEN "read" ELSE "invoke"],
             probe.cache)

\* cached_result = self._cache[cache_key]: KeyError when the entry is gone
ReadEntry(c) ==
    /\ probe.callers[c].pc = "read"
    /\ IF InCache(probe.cache, RaceKey)
       THEN Moved(c, [probe.callers[c] EXCEPT !.pc = "validity", !.cached_result = probe.cache[RaceKey]],
                  probe.cache)
       ELSE Failing(c, "cache")

\* if self._is_cache_valid(cached_result): the entry is flagged and returned
Validity(c) ==
    /\ probe.callers[c].pc = "validity"
    /\ IF is_cache_valid(probe.callers[c].cached_result, RaceNow)
       THEN Moved(c, [probe.callers[c] EXCEPT !.pc = "done",
                                             !.result = [probe.callers[c].cached_result EXCEPT !.cached = TRUE]],
                  IF InCache(probe.cache, RaceKey) /\ probe.cache[RaceKey] = probe.callers[c].cached_result
                  THEN Stored(probe.cache, RaceKey, [probe.callers[c].cached_result EXCEPT !.cached = TRUE])
                  ELSE probe.cache)
       ELSE Moved(c, [probe.callers[c] EXCEPT !.pc = "delete"], probe.cache)

\* del self._cache[cache_key]: KeyError when the entry is gone
DeleteEntry(c) ==
    /\ probe.callers[c].pc = "delete"
    /\ IF InCache(probe.cache, RaceKey)
       THEN Moved(c, [probe.callers[c] EXCEPT !.pc = "invoke"], Deleted(probe.cache, RaceKey))
       ELSE Failing(c, "cache")

\* result = self._execute(**params)
Invoke(c) ==
    /\ probe.callers[c].pc = "invoke"
    /\ \E product \in ToolProducts :
          IF product = "raises"
          THEN Moved(c, [probe.callers[c] EXCEPT !.pc = "done", !.result = ExecutionFailed,
                                                !.invoked = TRUE, !.raised_in = "tool"], probe.cache)
          ELSE Moved(c, [probe.callers[c] EXCEPT !.pc = IF Produced(product).success THEN "store" ELSE "done",
                                                !.result = Produced(product), !.invoked = TRUE],
                     probe.cache)

\* self._store_in_cache(cache_key, result); return result
StoreEntry(c) ==
    /\ probe.callers[c].pc = "store"
    /\ Moved(c, [probe.callers[c] EXCEPT !.pc = "done",
                    !.result = store_in_cache(probe.callers[c].result, CACHE_TTL_HOURS, RaceNow)],
             Stored(probe.cache, RaceKey, store_in_cache(probe.callers[c].result, CACHE_TTL_HOURS, RaceNow)))

\* once a call is done the caller calls again
CallAgain(c) ==
    /\ probe.callers[c].pc = "done"
    /\ Moved(c, Caller("membership", NoResult, NoResult, FALSE, "none"), probe.cache)

NextRace ==
    /\ \E c \in Callers :
          \/ Membership(c)
          \/ ReadEntry(c)
          \/ Validity(c)
          \/ DeleteEntry(c)
          \/ Invoke(c)
          \/ StoreEntry(c)
          \/ CallAgain(c)
    /\ UNCHANGED session

SpecRace == InitRace /\ [][NextRace]_vars

(***************************************************************************)
(* Properties                                                              *)
(***************************************************************************)
\* the turn just taken is a call of process_user_message that loaded an existing conversation
MessageTurn == last.op = "message" /\ last.reply \notin {"not_found", "error"}

Handled(handler) == handler \in Range(last.handlers)

\* the phase the row held before the k-th commit of the turn
PhaseBeforeCommit(k) == IF k = 1 THEN last.phase_before ELSE last.commits[k - 1]

\* C1: every change of the persisted phase made during a turn of process_user_message
\* follows an edge of VALID_TRANSITIONS (can_transition is true of it)
C1_PhaseChangesFollowTable ==
    MessageTurn =>
        \A k \in DOMAIN last.commits :
            PhaseBeforeCommit(k) # last.commits[k] => can_transition(PhaseBeforeCommit(k), last.commits[k])

\* C2: in a chain of extract_travel_data calls, each seeded with the result of the one
\* before, a key holding a non-empty value keeps its value unless the new extraction
\* supplies that key, and then it takes the supplied value
C2_KeysNeverErased ==
    (probe.kind = "extraction" /\ probe.calls > 0) =>
        \A key \in DOMAIN probe.before :
            Has(probe.before, key) =>
                /\ key \in DOMAIN probe.data
                /\ IF key \in DOMAIN probe.supplied
                   THEN probe.data[key] = probe.supplied[key]
                   ELSE probe.data[key] = probe.before[key]

\* a second call that leaves the destination of the first alone and replaces its travelers
C2_Witness ==
    /\ probe.kind = "extraction" /\ probe.calls = 2
    /\ Has(probe.before, "destination") /\ "destination" \notin DOMAIN probe.supplied
    /\ probe.data["destination"] = probe.before["destination"]
    /\ Has(probe.before, "travelers") /\ "travelers" \in DOMAIN probe.supplied
    /\ probe.data["travelers"] # probe.before["travelers"]

BareConfirmations == {<<"y","e","s">>, <<" ","G","o"," ","A","h","e","a","d"," ">>}

\* C3: a message that is a bare confirmation word, up to case and surrounding blanks,
\* leaves the active task kind as it was, in every task kind and phase, and the
\* arbitration rejects the switch whatever intent is detected
C3_BareConfirmationKeepsTask ==
    (MessageTurn /\ last.user_message \in BareConfirmations) =>
        /\ conversation.current_intent = last.intent_before
        /\ ~Handled("intent_transition")
        /\ \A detected_intent \in ConversationIntent :
              ~should_allow_intent_transition(last.intent_before, last.phase_before,
                                              last.user_message, detected_intent)

\* " Go Ahead " received by the packing task in refinement
C3_Witness ==
    /\ MessageTurn /\ last.user_message = <<" ","G","o"," ","A","h","e","a","d"," ">>
    /\ last.intent_before = PACKING_LIST /\ last.phase_before = REFINEMENT
    /\ conversation.current_intent = PACKING_LIST

ShowMeAttractions == <<"s","h","o","w"," ","m","e"," ","a","t","t","r","a","c","t","i","o","n","s"," ","i","n"," ","R","o","m","e">>

\* C4 as stated: under packing in data-collection, "show me attractions in Rome"
\* switches the active task to attractions in that turn
C4_ShowMeAttractionsSwitches ==
    (MessageTurn /\ last.user_message = ShowMeAttractions
     /\ last.intent_before = PACKING_LIST /\ last.phase_before = DATA_COLLECTION) =>
        conversation.current_intent = ATTRACTIONS

\* C4 amended: under packing, "show me attractions in Rome" passes the continuation
\* rule but has no pivot marker, so it switches the active task to attractions only
\* in refinement or completed; in data-collection the task stays packing and the
\* message is handled as packing data
C4_ShowMeAttractionsSwitchesLate ==
    (MessageTurn /\ last.user_message = ShowMeAttractions /\ last.intent_before = PACKING_LIST) =>
        /\ ~is_current_service_continuation(PACKING_LIST, ShowMeAttractions, ATTRACTIONS)
        /\ last.phase_before \in {REFINEMENT, COMPLETED} =>
              Handled("intent_transition") /\ conversation.current_intent = ATTRACTIONS
        /\ last.phase_before = DATA_COLLECTION =>
              /\ ~Handled("intent_transition")
              /\ conversation.current_intent = PACKING_LIST
              /\ Handled("data_collection_phase")

\* the message received by the packing task in data-collection, the task staying packing
C4_Witness ==
    /\ MessageTurn /\ last.user_message = ShowMeAttractions
    /\ last.intent_before = PACKING_LIST /\ last.phase_before = DATA_COLLECTION
    /\ conversation.current_intent = PACKING_LIST

\* the turn left the row and the snapshots as they were
NothingPersisted ==
    /\ conversation.current_intent = last.intent_before
    /\ conversation.current_phase = last.phase_before
    /\ last.commits = <<>>
    /\ Len(snapshots) = last.snapshots_before

TokyoOpening == <<"I"," ","n","e","e","d"," ","a"," ","p","a","c","k","i","n","g"," ","l","i","s","t"," ","f","o","r"," ","T","o","k","y","o"," ","f","o","r"," ","5"," ","d","a","y","s">>

\* C6, the second step of the packing scenario as stated: after
\* start("I need a packing list for Tokyo for 5 days"), send("2 adults") yields a slot
\* map with travelers {adults 2, kids 0}, destination Tokyo and duration_days 5, no
\* missing critical slot, and phase = processing
C6_PackingScenarioRetainsOpening ==
    (MessageTurn /\ initial_turn = TokyoOpening /\ turns = 1 /\ last.user_message = <<"2"," ","a","d","u","l","t","s">>) =>
        /\ last.intent_before = PACKING_LIST /\ last.phase_before = DATA_COLLECTION
        /\ Has(last.new_data, "travelers") /\ last.new_data["travelers"] = [adults |-> 2, kids |-> 0]
        /\ Has(last.new_data, "destination") /\ last.new_data["destination"] = <<"T","o","k","y","o">>
        /\ DateFieldSet(date_range_of(last.new_data), "duration_days")
        /\ last.missing_slots = {}
        /\ conversation.current_phase = PROCESSING

HoneymoonMessage == <<"W","h","e","r","e"," ","s","h","o","u","l","d"," ","I"," ","g","o"," ","f","o","r"," ","a"," ","r","o","m","a","n","t","i","c"," ","h","o","n","e","y","m","o","o","n"," ","i","n"," ","J","u","n","e"," ","f","o","r"," ","1","0"," ","d","a","y","s",","," ","b","u","d","g","e","t"," ","n","o","-","l","i","m","i","t">>

\* C7: under the destination task in data-collection, an extraction that yields
\* non-empty user_preferences leaves no critical slot missing and the phase becomes
\* processing in that turn; the honeymoon message on an empty slot map is such a
\* message, and also gives duration_days = 10
C7_PreferencesSufficeForDestination ==
    (MessageTurn /\ Handled("data_collection_phase") /\ last.intent_before = DESTINATION_RECOMMENDATION) =>
        /\ Has(last.new_data, "user_preferences") =>
              /\ last.missing_slots = {}
              /\ last.commits = <<PROCESSING>>
              /\ conversation.current_phase = PROCESSING
        /\ (last.user_message = HoneymoonMessage /\ last.existing_data = EmptyMap /\ ~last.raised) =>
              /\ Has(last.new_data, "user_preferences")
              /\ date_range_of(last.new_data)["duration_days"] = 10

\* the honeymoon message on an empty slot map, the phase going to processing
C7_Witness ==
    /\ MessageTurn /\ last.user_message = HoneymoonMessage
    /\ last.intent_before = DESTINATION_RECOMMENDATION /\ last.phase_before = DATA_COLLECTION
    /\ last.existing_data = EmptyMap
    /\ Has(last.new_data, "user_preferences")
    /\ conversation.current_phase = PROCESSING

\* C8: whenever the quality gate runs, the turn ends with the persisted phase =
\* completed, whatever the task kind and whatever its checks say
C8_QualityGateCompletes ==
    (MessageTurn /\ Handled("pre_finalize_checks")) =>
        /\ last.phase_before = REFINEMENT
        /\ conversation.current_phase = COMPLETED
        /\ last.next_phase = COMPLETED
        /\ conversation.current_intent = last.intent_before

\* the gate run for the destination task, which has no checks of its own
C8_Witness ==
    /\ MessageTurn /\ Handled("pre_finalize_checks")
    /\ last.intent_before = DESTINATION_RECOMMENDATION
    /\ last.checks_failed = {} /\ last.checks_passed = {"constraint_compliance", "weather_conflicts"}
    /\ conversation.current_phase = COMPLETED

\* the entries of the result list of the turn's pipeline run with the given tool name
EntriesOf(tool_name) == {k \in DOMAIN last.tool_results : last.tool_results[k].tool_name = tool_name}

FailedTools == {last.tool_results[k].tool_name : k \in {j \in DOMAIN last.tool_results : ~last.tool_results[j].success}}

\* a packing pipeline run whose weather call did not succeed
WeatherFailedInPackingRun ==
    /\ MessageTurn /\ last.tools_run /\ conversation.current_intent = PACKING_LIST
    /\ "weather" \in FailedTools

\* C9 as stated: in a packing pipeline run whose weather call fails, the fallback is
\* substituted, the packing tool is still invoked, the packing result is not failed
\* and the weather entry is the only failed one
C9_WeatherFailureIsOnlyFailure ==
    WeatherFailedInPackingRun =>
        /\ last.weather_data \in {"fallback", "fallback_without_summary"}
        /\ EntriesOf("packing") # {}
        /\ FailedTools = {"weather"}

\* C9 amended: in a packing pipeline run whose weather call fails, the fallback is
\* substituted and the packing tool is still invoked; the packing result is not
\* failed exactly when the trip length is within 1..365 days, and then the weather
\* entry is the only failed one unless the city-info call failed as well
C9_WeatherFailureDoesNotBlockPacking ==
    WeatherFailedInPackingRun =>
        /\ last.weather_data \in {"fallback", "fallback_without_summary"}
        /\ Cardinality(EntriesOf("packing")) = 1
        /\ "packing" \in FailedTools <=>
              ~(trip_length_of(last.tool_input) >= 1 /\ trip_length_of(last.tool_input) <= 365)
        /\ FailedTools \subseteq {"weather", "city_info", "packing"}

\* a run with the weather call failed and a packing result that is not failed
C9_Witness ==
    /\ WeatherFailedInPackingRun
    /\ last.weather_data = "fallback"
    /\ FailedTools = {"weather"}
    /\ EntriesOf("packing") # {}

\* at least one of the six fields of the date_range is set
AnyDateFieldSet(date_range) == \E field \in DateFields : DateFieldSet(date_range, field)

\* C10: date_range is not reported missing if and only if at least one of its six
\* fields is set, in the extraction-stage check and in get_missing_critical_slots alike
C10_DateRangePresence ==
    (probe.kind = "date_range" /\ probe.checked) =>
        /\ "date_range" \notin probe.extraction_missing <=> AnyDateFieldSet(probe.date_range)
        /\ "date_range" \notin probe.slots_missing <=> AnyDateFieldSet(probe.date_range)

\* the critical slots of a task kind, as the specification lists them
ListedCriticalSlots(intent) ==
    CASE intent = PACKING_LIST               -> {"destination", "date_range", "travelers"}
      [] intent = DESTINATION_RECOMMENDATION -> {"user_preferences"}
      [] intent = ATTRACTIONS                -> {"destination"}
      [] OTHER                               -> {}

\* the slot is not in the map, or holds an empty value (for date_range: no field set)
AbsentOrEmpty(data, slot) ==
    \/ slot \notin DOMAIN data
    \/ IF slot = "date_range" THEN ~AnyDateFieldSet(data[slot]) ELSE ~Truthy(slot, data[slot])

\* destination, date_range.duration_days and travelers are all present
PackingComplete(data) ==
    /\ Has(data, "destination")
    /\ Has(data, "travelers")
    /\ "date_range" \in DOMAIN data
    /\ DateFieldSet(data["date_range"], "duration_days")

\* C11: get_missing_critical_slots returns exactly the listed critical slots of the
\* task kind that are absent or empty; a packing map with destination,
\* date_range.duration_days and travelers has none missing, and deleting one of the
\* three makes exactly that slot missing
C11_MissingSlotsAreAbsentOrEmpty ==
    (probe.kind = "slots" /\ probe.checked) =>
        /\ probe.missing = {slot \in ListedCriticalSlots(probe.intent) : AbsentOrEmpty(probe.data, slot)}
        /\ (probe.intent = PACKING_LIST /\ PackingComplete(probe.before) /\ probe.removed = NoSlot)
              => probe.missing = {}
        /\ (probe.intent = PACKING_LIST /\ PackingComplete(probe.before)
            /\ probe.removed \in {"destination", "date_range", "travelers"})
              => probe.missing = {probe.removed}

\* the detected task kind differs from the active one and neither rejection rule applies
SwitchNotRejected ==
    /\ MessageTurn
    /\ last.detected_intent \notin {last.intent_before, GENERAL}
    /\ ~is_simple_response(last.user_message)
    /\ ~is_current_service_continuation(last.intent_before, last.user_message, last.detected_intent)

PivotMarked == has_transition_indicator(last.user_message)

PackingForJapan == <<"A","c","t","u","a","l","l","y",","," ","I"," ","a","l","r","e","a","d","y"," ","k","n","o","w"," ","w","h","e","r","e"," ","I","'","m"," ","g","o","i","n","g","."," ","I"," ","n","e","e","d"," ","h","e","l","p"," ","p","a","c","k","i","n","g"," ","f","o","r"," ","J","a","p","a","n",".">>

\* C12 as stated: a differing, unrejected detection switches the task exactly when the
\* message has a pivot marker or the phase is refinement or completed; the pivot-marked
\* packing request under destination data-collection makes packing active; without a
\* pivot marker in intent-detection, data-collection or processing the active task
\* stays as it was
C12_SwitchIffPivotOrLatePhase ==
    SwitchNotRejected =>
        /\ Handled("intent_transition") <=> (PivotMarked \/ last.phase_before \in {REFINEMENT, COMPLETED})
        /\ Handled("intent_transition") => conversation.current_intent = last.detected_intent
        /\ (last.user_message = PackingForJapan /\ last.intent_before = DESTINATION_RECOMMENDATION
            /\ last.phase_before = DATA_COLLECTION) => conversation.current_intent = PACKING_LIST
        /\ (~PivotMarked /\ last.phase_before \in {INTENT_DETECTION, DATA_COLLECTION, PROCESSING})
              => conversation.current_intent = last.intent_before

\* C12 amended: as stated for the switch itself and for data-collection and processing;
\* in intent-detection the active kind is still undetermined, and a message without a
\* pivot marker is not handed to the switch but, once it passes validation, to intent
\* detection, which makes the detected kind active
C12_SwitchIffPivotOrLatePhaseAfterDetection ==
    SwitchNotRejected =>
        /\ Handled("intent_transition") <=> (PivotMarked \/ last.phase_before \in {REFINEMENT, COMPLETED})
        /\ Handled("intent_transition") => conversation.current_intent = last.detected_intent
        /\ (last.user_message = PackingForJapan /\ last.intent_before = DESTINATION_RECOMMENDATION
            /\ last.phase_before = DATA_COLLECTION) => conversation.current_intent = PACKING_LIST
        /\ (~PivotMarked /\ last.phase_before \in {DATA_COLLECTION, PROCESSING})
              => conversation.current_intent = last.intent_before
        /\ (~PivotMarked /\ last.phase_before = INTENT_DETECTION) =>
              /\ last.intent_before = GENERAL
              /\ IF last.validation = "passed"
                 THEN Handled("intent_detection") /\ conversation.current_intent = last.detected_intent
                 ELSE conversation.current_intent = GENERAL

\* the packing request for Japan received by the destination task in data-collection
C12_Witness ==
    /\ SwitchNotRejected
    /\ last.user_message = PackingForJapan
    /\ last.intent_before = DESTINATION_RECOMMENDATION /\ last.phase_before = DATA_COLLECTION
    /\ Handled("intent_transition")
    /\ conversation.current_intent = PACKING_LIST

AttractionsInBarcelona == <<"n","o",","," ","i","t","s"," ","p","e","r","f","e","c","t","!"," ","b","u","t",","," ","i"," ","w","o","u","l","d"," ","l","o","v","e"," ","t","o"," ","g","e","t"," ","s","o","m","e"," ","r","e","c","o","m","m","e","n","d","a","t","i","o","n","s"," ","a","b","o","u","t"," ","a","t","t","r","a","c","t","i","o","n","s"," ","i","n"," ","B","a","r","c","e","l","o","n","a","."," ","w","e"," ","l","o","v","e"," ","b","e","a","c","h","e","s",","," ","m","u","s","e","u","m","s"," ","a","n","d"," ","s","t","r","e","e","t"," ","f","o","o","d",".">>

\* C13: once the packing task has delivered its list (refinement), the pivot-marked
\* request for recommendations about attractions in Barcelona makes attractions the
\* active task kind, and the pipeline of that turn is run for the session's city,
\* Barcelona
C13_AttractionsRequestAfterPacking ==
    (MessageTurn /\ last.user_message = AttractionsInBarcelona
     /\ last.intent_before = PACKING_LIST /\ last.phase_before = REFINEMENT) =>
        /\ conversation.current_intent = ATTRACTIONS
        /\ last.tools_run =>
              /\ "destination" \in DOMAIN last.tool_input
              /\ last.tool_input["destination"] = <<"B","a","r","c","e","l","o","n","a">>

\* the turn was an allowed task switch
SwitchTurn == MessageTurn /\ Handled("intent_transition")

\* the keys the new task may see: the allow-list and what the switching message yields
SwitchKeys ==
    shareable_fields \cup DOMAIN patterns_of(last.user_message, conversation.current_intent)

\* C14: on an allowed task switch the slot map the new task starts from holds only
\* allow-listed keys and keys extracted from the switching message, in that turn and
\* in the snapshot that later turns load, and every allow-listed key that held a
\* non-empty value is carried over
C14_OnlyShareableCarriedOver ==
    SwitchTurn =>
        /\ DOMAIN last.new_data \subseteq SwitchKeys
        /\ DOMAIN load_conversation_data(snapshots) \subseteq SwitchKeys
        /\ \A key \in shareable_fields : Has(last.existing_data, key) => key \in DOMAIN last.new_data

\* the snapshots written during the turn, oldest first
WrittenSnapshots == SubSeq(snapshots, last.snapshots_before + 1, Len(snapshots))

\* C15: on every allowed task switch, natural or disruptive, an outgoing task that was
\* not yet completed is first marked completed, and a snapshot of its slot map in that
\* completed state is written before the active task kind changes
C15_OutgoingTaskCompletedAndSnapshotted ==
    (SwitchTurn /\ last.phase_before # COMPLETED) =>
        /\ last.commits # <<>>
        /\ last.commits[1] = COMPLETED
        /\ WrittenSnapshots # <<>>
        /\ WrittenSnapshots[1] = [intent |-> last.intent_before, phase |-> COMPLETED,
                                  conversation_data |-> last.existing_data]

\* the switch found every critical slot of the new task satisfied
SwitchSatisfied == last.extracted /\ last.missing_slots = {}

\* the pipeline of the new task ran in the turn, on the merged slot map
JumpedToProcessing ==
    /\ conversation.current_intent = last.detected_intent
    /\ conversation.current_phase = PROCESSING
    /\ last.tools_run
    /\ last.tool_input = last.new_data

\* the session waits in data-collection for the new task, with questions of that task
AskedForNewTask ==
    /\ conversation.current_intent = last.detected_intent
    /\ conversation.current_phase = DATA_COLLECTION
    /\ ~last.tools_run
    /\ last.reply = "questions"
    /\ last.questions # <<>>
    /\ Range(last.questions) \subseteq SERVICE_QUESTIONS(last.detected_intent)

\* the latest snapshot is the merged slot map, written in the turn for the new task
MergedSnapshotted ==
    /\ WrittenSnapshots # <<>>
    /\ snapshots[Len(snapshots)] = [intent |-> last.detected_intent, phase |-> DATA_COLLECTION,
                                    conversation_data |-> last.new_data]

\* C16: on an allowed switch, after the extraction seeded with the shareable
\* subset, either every critical slot of the new task is satisfied and its pipeline
\* runs in the same turn, or the session stays in data-collection for the new task,
\* the merged slot map is snapshotted and the reply asks questions of the new task
C16_SwitchProceedsOrAsks ==
    SwitchTurn =>
        IF SwitchSatisfied THEN JumpedToProcessing
        ELSE AskedForNewTask /\ MergedSnapshotted

\* C17: a turn whose message validation refuses, for safety or for scope, answers with
\* the refusal message and leaves the phase, the active task kind and the snapshots of
\* the session as they were
C17_RefusalChangesNothing ==
    (MessageTurn /\ last.validation = "refused") =>
        /\ violation_type(last.user_message, last.intent_before) \in {"safety", "scope"}
        /\ last.reply = "refusal"
        /\ last.next_phase = NoPhase
        /\ conversation.current_phase = last.phase_before
        /\ conversation.current_intent = last.intent_before
        /\ Len(snapshots) = last.snapshots_before
        /\ last.existing_data = load_conversation_data(snapshots)

\* a bare "yes" refused for scope before any task is chosen
C17_Witness ==
    /\ MessageTurn /\ last.user_message = <<"y","e","s">>
    /\ last.intent_before = GENERAL
    /\ last.validation = "refused"
    /\ violation_type(last.user_message, GENERAL) = "scope"
    /\ last.reply = "refusal"
    /\ conversation.current_intent = GENERAL /\ conversation.current_phase = INTENT_DETECTION

\* C18: whatever the session, the message and the failures of the collaborators,
\* process_user_message answers with a text, and the text never quotes an exception
C18_FriendlyTextOnEveryFailure ==
    last.op = "message" =>
        /\ last.reply # "none"
        /\ ~last.exception_text

\* the latest call looked up a conversation that did not exist
UnknownSessionLookup == last.op \in {"message", "send_message", "resume"} /\ ~last.existed

\* the lookup query itself failed
LookupFailed == last.reply \in {"error", "http_500"}

\* C19: a message or a resume request for an unknown session id gets the explicit
\* not-found outcome (the "couldn't find that conversation" reply from
\* process_user_message, HTTP 404 from the route, an error from resume) whenever the
\* lookup itself completes, and in every case no conversation, turn row or snapshot
\* is created or changed
C19_UnknownSessionNotFound ==
    UnknownSessionLookup =>
        /\ ~LookupFailed =>
              last.reply = CASE last.op = "message"      -> "not_found"
                             [] last.op = "send_message" -> "http_404"
                             [] OTHER                    -> "error_not_found"
        /\ conversation = NoConversation
        /\ snapshots = <<>>
        /\ initial_turn = <<>>
        /\ route_turns = 0
        /\ last.commits = <<>>

\* the route answering 404 for a conversation that does not exist
C19_Witness ==
    /\ UnknownSessionLookup
    /\ last.op = "send_message"
    /\ last.reply = "http_404"
    /\ conversation = NoConversation /\ route_turns = 0

\* the task kinds in the order in which their lexicons are scanned
DetectPriority == <<DESTINATION_RECOMMENDATION, PACKING_LIST, ATTRACTIONS>>

Lexicon(kind) ==
    CASE kind = DESTINATION_RECOMMENDATION -> DestinationKeywords
      [] kind = PACKING_LIST               -> PackingKeywords
      [] OTHER                             -> AttractionsKeywords

\* an entry of the kind's lexicon occurs in the lower-cased text
Occurs(kind, text) == \E entry \in Lexicon(kind) : Contains(Lower(text), entry)

FirstOccurring(text) ==
    IF \E i \in DOMAIN DetectPriority : Occurs(DetectPriority[i], text)
    THEN DetectPriority[CHOOSE i \in DOMAIN DetectPriority :
                            /\ Occurs(DetectPriority[i], text)
                            /\ \A j \in 1..(i - 1) : ~Occurs(DetectPriority[j], text)]
    ELSE GENERAL

Extracted == probe.kind = "fallback" /\ probe.calls > 0

BothHandled == probe.kind = "requests" /\ \A r \in RequestIds : probe.requests[r].pc = "done"

\* the outcome of handling the two messages one after the other, in the order given
HandledInOrder(base, order) ==
    LET first == process_user_message(base, <<>>, probe.requests[order[1]].message, NominalEnvironment)
    IN  process_user_message(first.conversation, first.snapshots,
                             probe.requests[order[2]].message, NominalEnvironment)

AuthoritativeData == load_conversation_data(snapshots)

\* the latest turn ran the data-collection handler and found a critical slot missing
CollectedWithSlotMissing ==
    /\ MessageTurn
    /\ Handled("data_collection_phase")
    /\ last.missing_slots # {}

\* C23: processing never begins while a critical slot is missing: a data-collection
\* turn that finds a critical slot of the active task missing leaves the phase at
\* data-collection, and whenever the persisted phase is processing the latest
\* snapshot's slot map has no missing critical slot for the active task, also after a
\* failed snapshot save and after a task switch
C23_NoProcessingWhileSlotMissing ==
    /\ CollectedWithSlotMissing => conversation.current_phase = DATA_COLLECTION
    /\ (conversation.exists /\ conversation.current_phase = PROCESSING) =>
           get_missing_critical_slots(conversation.current_intent, AuthoritativeData) = {}

\* the latest turn ran a pipeline and an exception was raised outside its tool calls
PipelineRaised == MessageTurn /\ last.pipeline_failed

\* C24: an unexpected exception while the tools run or their results are formatted is
\* caught on every path that runs the pipeline, the processing-phase handler and the
\* jump to processing on a task switch, and in each case the session is left in phase
\* refinement and the reply is the apology with the static fallback recommendation
C24_PipelineFailureForcesRefinement ==
    PipelineRaised =>
        /\ last.reply = "static_fallback"
        /\ conversation.current_phase = REFINEMENT
        /\ last.next_phase = REFINEMENT

\* the tools of a pipeline in the order in which it calls them
ToolOrder(intent) ==
    CASE intent = PACKING_LIST -> <<"weather", "city_info", "packing">>
      [] intent = ATTRACTIONS  -> <<"city_info", "attractions_finder">>
      [] OTHER                 -> <<"destination_recommendation">>

\* the place of a tool in the order of its pipeline
PlaceOf(tool_name, order) == CHOOSE i \in DOMAIN order : order[i] = tool_name

\* the latest turn ran a pipeline to its end
PipelineRun == MessageTurn /\ last.tools_run

\* C25: in every pipeline a tool call that raises or returns an unsuccessful result
\* becomes a failed entry of the result list and does not end the run: the entries
\* follow the fixed order of the pipeline (packing: weather, city-info, packing rules;
\* attractions: city-info, recommendation) with at most one entry per tool, and after
\* a failed entry every later tool of the pipeline is still called and has its entry
C25_ToolFailureDoesNotAbort ==
    PipelineRun =>
        LET results == last.tool_results
            order == ToolOrder(conversation.current_intent)
        IN  /\ \A k \in DOMAIN results : results[k].tool_name \in Range(order)
            /\ \A j, k \in DOMAIN results :
                   j < k => PlaceOf(results[j].tool_name, order) < PlaceOf(results[k].tool_name, order)
            /\ \A k \in DOMAIN results :
                   ~results[k].success =>
                       \A place \in (PlaceOf(results[k].tool_name, order) + 1)..Len(order) :
                           \E j \in DOMAIN results :
                               /\ j > k
                               /\ results[j].tool_name = order[place]
                               /\ results[j].invoked

\* an attractions run whose city-info call failed and whose recommendation tool was
\* still called
C25_Witness ==
    /\ PipelineRun
    /\ conversation.current_intent = ATTRACTIONS
    /\ Len(last.tool_results) = 2
    /\ ~last.tool_results[1].success
    /\ last.tool_results[2].tool_name = "attractions_finder"
    /\ last.tool_results[2].invoked

\* the latest turn met the conversation in refinement and switched no task
RefinementTurn == MessageTurn /\ last.phase_before = REFINEMENT /\ ~Handled("intent_transition")

\* C26: in refinement a message without a completion phrase that switches no task is
\* only acknowledged as a modification request (unless validation refuses it): the
\* phase stays refinement, the task and the slot map are unchanged, no snapshot is
\* written, nothing is extracted and no tool is run; the phase goes from refinement to
\* completed only on a message containing "looks good", "perfect", "thanks",
\* "that's great", "no changes" or "finalize"
C26_ModificationOnlyAcknowledged ==
    /\ (RefinementTurn /\ ~CompletionTable[last.user_message]) =>
           /\ last.reply # "refusal" => last.reply = "modification_stub"
           /\ conversation.current_phase = REFINEMENT
           /\ conversation.current_intent = last.intent_before
           /\ last.commits = <<>>
           /\ Len(snapshots) = last.snapshots_before
           /\ AuthoritativeData = last.existing_data
           /\ ~last.extracted /\ ~last.tools_run /\ ~last.pipeline_failed
    /\ (MessageTurn /\ last.phase_before = REFINEMENT /\ conversation.current_phase = COMPLETED) =>
           CompletionTable[last.user_message]

\* a request for a change in refinement, acknowledged and nothing more
C26_Witness ==
    /\ RefinementTurn
    /\ last.user_message = <<"2"," ","a","d","u","l","t","s">>
    /\ last.reply = "modification_stub"
    /\ conversation.current_phase = REFINEMENT
    /\ last.existing_data # EmptyMap

\* the latest message was detected as another task than the active one, contains a
\* continuation verb of the active task and no service name of the detected one
ContinuationOfCurrentTask ==
    /\ MessageTurn
    /\ last.detected_intent \notin {last.intent_before, GENERAL}
    /\ is_current_service_continuation(last.intent_before, last.user_message, last.detected_intent)

\* C27 as stated: such a message never switches the task, in any phase and with or
\* without a pivot marker, and the active task kind and the phase are unchanged
C27_ContinuationLeavesTaskAndPhase ==
    ContinuationOfCurrentTask =>
        /\ ~Handled("intent_transition")
        /\ conversation.current_intent = last.intent_before
        /\ conversation.current_phase = last.phase_before

\* C27: a message with a continuation verb of the current task (packing: generate,
\* create, make, show me, give me; destination: recommend, suggest, find; attractions:
\* show, tell me, list) and no service name of the detected task never switches the
\* task, in any phase and even with a pivot marker: the active task kind is unchanged
\* and the message is handled as a message of the current task, whose handler may
\* move the phase forward
C27_ContinuationRejectsSwitch ==
    ContinuationOfCurrentTask =>
        /\ ~Handled("intent_transition")
        /\ conversation.current_intent = last.intent_before
        /\ last.reply # "refusal" => Handled("structured_phases")
        /\ conversation.current_phase # last.phase_before =>
              /\ last.phase_before \in {DATA_COLLECTION, PROCESSING, REFINEMENT}
              /\ last.commits = <<conversation.current_phase>>

\* a pivot-marked request to generate, made while the packing task is in processing:
\* no switch, and the packing pipeline delivers its results
C27_Witness ==
    /\ ContinuationOfCurrentTask
    /\ has_transition_indicator(last.user_message)
    /\ last.intent_before = PACKING_LIST /\ last.phase_before = PROCESSING
    /\ conversation.current_intent = PACKING_LIST
    /\ conversation.current_phase = REFINEMENT

\* the destination stored in a slot map looks like a parse failure
SuspiciousStored(data) == Has(data, "destination") /\ is_suspicious_destination(data["destination"])

\* C28: a suspicious destination value (more than four words, or containing a phrase
\* such as "activities" or "near") is a parse failure and never a value: the slot map
\* returned by extract_travel_data never holds one, so it never replaces a destination
\* stored before, also when the LLM fallback for the field fails or returns nothing,
\* and get_missing_critical_slots never counts one as a destination
C28_SuspiciousDestinationNeverStored ==
    Extracted =>
        /\ ~SuspiciousStored(probe.data)
        /\ (SuspiciousStored(probe.data) /\ "destination" \in Range(critical_fields(probe.intent))) =>
               "destination" \in get_missing_critical_slots(probe.intent, probe.data)

\* a call of extract_travel_data whose try block ran to its end
ExtractedToEnd == Extracted /\ probe.fault \notin HandlerFaults

\* C29: the result of extract_travel_data is the accumulated data overlaid by the
\* pattern results overlaid by the LLM results: the LLM value wins over the pattern
\* value of the same key, a value of the new extraction wins over the accumulated one,
\* a key supplied by neither keeps its accumulated value, and a reply of the LLM that
\* does not parse to a usable value contributes no key
C29_ResultIsAccumulatedPatternsLlmOverlay ==
    ExtractedToEnd =>
        /\ DOMAIN probe.data = DOMAIN probe.before \cup DOMAIN probe.patterns \cup DOMAIN probe.llm
        /\ \A key \in DOMAIN probe.data :
               probe.data[key] = IF key \in DOMAIN probe.llm THEN probe.llm[key]
                                 ELSE IF key \in DOMAIN probe.patterns THEN probe.patterns[key]
                                 ELSE probe.before[key]
        /\ DOMAIN probe.llm \subseteq probe.missing
        /\ probe.reply_kind # "value" => probe.llm = EmptyMap

\* the patterns and the LLM both supply a destination and the LLM's is kept, next to a
\* key that only the accumulated data holds
C29_Witness ==
    /\ ExtractedToEnd /\ probe.calls = 2
    /\ "destination" \in DOMAIN probe.patterns /\ "destination" \in DOMAIN probe.llm
    /\ probe.patterns["destination"] # probe.llm["destination"]
    /\ probe.data["destination"] = probe.llm["destination"]
    /\ \E key \in DOMAIN probe.before :
           /\ key \notin DOMAIN probe.patterns \cup DOMAIN probe.llm
           /\ probe.data[key] = probe.before[key]

\* the latest turn ran the checks of the quality gate
GateRun == MessageTurn /\ Handled("pre_finalize_checks") /\ last.intent_before # GENERAL

\* the checks that the gate builds for the task of the latest turn
GateChecks == create_quality_checks(last.intent_before)

\* C30: for every task kind the quality gate gives each check it builds (the two
\* universal ones, activity coverage and weather preparation for packing, time
\* feasibility and indoor backups for attractions) a pass or fail outcome, so that no
\* check keeps a null outcome; it appends as many auto-fix suggestions as checks
\* failed, and records an uncertainty flag for each failed check and for no other
C30_EveryCheckGetsAnOutcome ==
    GateRun =>
        /\ last.checks_passed \cup last.checks_failed = Range(GateChecks)
        /\ last.checks_passed \cap last.checks_failed = {}
        /\ Len(auto_fixes(GateChecks, last.existing_data)) = Cardinality(last.checks_failed)
        /\ Len(uncertainty_flags(auto_fixes(GateChecks, last.existing_data))) = Cardinality(last.checks_failed)

Formatting == probe.kind = "format" /\ probe.calls > 0

\* the text says that required data is missing: the issue text of the destination
\* formatter, the status list of the packing formatter, one of the notes of the
\* attractions formatter
Placeholders == {"issue", "status_list", "none_found", "trouble", "being_generated"}

\* the result list lacks the result the task is about
RequiredResultMissing ==
    LET required == FindResult(probe.tool_results, ToolsOf(probe.intent)[Len(ToolsOf(probe.intent))])
    IN  required = <<>> \/ ~required[1].success \/ ~TruthyData(required[1].data)

\* C31: each result formatter (packing, attractions, destination) never raises, for
\* every result list (empty, a tool entry missing, failed, successful with an absent or
\* partial payload) and every slot map; when the required result is missing the text
\* returned carries a placeholder or a status list
C31_FormattersNeverRaise ==
    Formatting /\ probe.intent # GENERAL =>
        /\ ~probe.result.raised
        /\ RequiredResultMissing => probe.result.sections \cap Placeholders # {}

\* the snapshots written before the step are all still there, unchanged and in place
SnapshotsKept ==
    /\ Len(snapshots') >= Len(snapshots)
    /\ SubSeq(snapshots', 1, Len(snapshots)) = snapshots

\* the turn merged the message into a slot map other than the one it loaded
SlotMapChanged == MessageTurn /\ last.extracted /\ last.new_data # last.existing_data

\* C32: snapshots are append-only and the last one written wins: a save adds a
\* snapshot and no step updates or deletes one; a turn that changes the slot map adds a
\* snapshot that holds the new map; a turn starts from exactly the slot map of the most
\* recently created snapshot, the empty map when there is none
C32_SnapshotsAppendOnlyLastWins ==
    [][/\ SnapshotsKept
       /\ SlotMapChanged' => /\ Len(snapshots') > Len(snapshots)
                             /\ load_conversation_data(snapshots') = last'.new_data
       /\ MessageTurn' => last'.existing_data = IF snapshots = <<>> THEN EmptyMap
                                                ELSE snapshots[Len(snapshots)].conversation_data]_vars

\* C33: after every turn the phase that the response reports, when it reports one, is
\* the phase persisted for the session, so that the next message goes to the handler of
\* the phase the user was told: after a switch that jumps to processing and answers
\* with results and phase refinement, the persisted phase is refinement
C33_ReportedPhaseIsPersistedPhase ==
    MessageTurn /\ last.next_phase # NoPhase => last.next_phase = conversation.current_phase

\* the task kind of the session is undetermined exactly in the phase intent detection
UndeterminedIffDetecting ==
    conversation.exists =>
        (conversation.current_intent = GENERAL <=> conversation.current_phase = INTENT_DETECTION)

\* C34: in every reachable state of a session the task kind is undetermined (general)
\* if and only if the phase is intent detection, and no step takes a determined task
\* kind back to undetermined
C34_UndeterminedOnlyWhileDetecting ==
    /\ []UndeterminedIffDetecting
    /\ [][conversation.exists /\ conversation.current_intent # GENERAL
             => conversation'.current_intent # GENERAL]_vars

\* a message determined the task kind of a session that was started without one
C34_Witness ==
    /\ MessageTurn
    /\ last.intent_before = GENERAL
    /\ conversation.current_intent # GENERAL
    /\ conversation.current_phase = DATA_COLLECTION

\* the latest turn left the session collecting data because a critical slot is missing
LeftCollecting ==
    /\ MessageTurn
    /\ last.extracted
    /\ last.missing_slots # {}
    /\ conversation.current_phase = DATA_COLLECTION

\* C35: whenever a turn leaves the session in data collection because a critical slot
\* is missing, the response asks at least one targeted question, and every question it
\* asks is about a slot that is missing, for every task kind (the destination task,
\* whose only critical slot is user_preferences, included)
C35_MissingSlotIsAskedFor ==
    LeftCollecting =>
        /\ last.questions # <<>>
        /\ \A i \in DOMAIN last.questions :
              \/ last.questions[i] \in last.missing_slots
              \/ last.questions[i] \notin DOMAIN last.new_data

\* the facts that a message keeps recording whether or not it speaks of them
RecordedFacts == {"travelers", "is_international", "requires_flight"}

\* the latest call was seeded with the fact and did the extraction of a message that
\* does not speak of it
NotSpokenOf(key) ==
    /\ probe.kind = "extraction" /\ probe.calls > 0
    /\ key \in DOMAIN probe.before
    /\ probe.supplied # EmptyMap
    /\ key \notin probe.spoken_of

\* C36: a traveler count recorded from an earlier message is unchanged after a later
\* extraction whose message mentions no travelers, and so are the packing flags
\* is_international and requires_flight once an earlier message has set them
C36_UnmentionedFactsKept ==
    \A key \in RecordedFacts :
        NotSpokenOf(key) => key \in DOMAIN probe.data /\ probe.data[key] = probe.before[key]

\* the date_range of a slot map counts as present in the check of the critical slots
DateRangePresent(data) == "date_range" \notin get_missing_critical_slots(PACKING_LIST, data)

\* C37: a sub-field of date_range set by an earlier message (duration_days = 5) is
\* still there with the same value after a later extraction that supplies other
\* sub-fields of date_range only (the month); so a date_range that once counted as
\* present does not go back to missing
C37_DateRangeSubFieldsKept ==
    (/\ probe.kind = "extraction" /\ probe.calls > 0
     /\ "date_range" \in DOMAIN probe.before
     /\ "date_range" \in DOMAIN probe.supplied) =>
        /\ \A field \in DOMAIN probe.before["date_range"] :
              (DateFieldSet(probe.before["date_range"], field)
               /\ field \notin DOMAIN probe.supplied["date_range"]) =>
                  /\ "date_range" \in DOMAIN probe.data
                  /\ field \in DOMAIN probe.data["date_range"]
                  /\ probe.data["date_range"][field] = probe.before["date_range"][field]
        /\ DateRangePresent(probe.before) => DateRangePresent(probe.data)

(***************************************************************************)
(* C38                                                                     *)
(***************************************************************************)
\* the call just made was resume_conversation and its queries did not raise
Resumed == last.op = "resume" /\ ~last.exception_text

\* what resume_conversation answers for the row of this state, were its status `status`
ResumeOf(status) ==
    resume_conversation([conversation EXCEPT !.status = status], snapshots,
                        TurnRows(conversation, route_turns), FALSE)

\* the answer of the resume just made: the context of the conversation as it stands
\* (kind, phase, the slot map and the synopsis of the latest snapshot, the number of
\* turn rows), or an error for an unknown conversation
ResumeAnswer ==
    IF conversation.exists
    THEN /\ last.reply = "resume_context"
         /\ last.context.resumable
         /\ last.context.intent = conversation.current_intent
         /\ last.context.phase = conversation.current_phase
         /\ last.context.collected_data =
                (IF snapshots = <<>> THEN EmptyMap ELSE snapshots[Len(snapshots)].conversation_data)
         /\ last.context.synopsis_from = Len(snapshots)
         /\ last.context.turn_count = 1 + route_turns
    ELSE last.reply = "error_not_found" /\ last.context = NoContext

\* a row that is not active gets an error from resume_conversation and is left as it is
InactiveRefused ==
    conversation.exists =>
        \A status \in ConversationStatus \ {ACTIVE} :
            /\ ResumeOf(status).reply = "error_not_active"
            /\ ResumeOf(status).context = NoContext
            /\ ResumeOf(status).conversation = [conversation EXCEPT !.status = status]
            /\ ResumeOf(status).snapshots = snapshots

\* C38: resume is read-only and only for active sessions: a resume step changes neither
\* the conversation row nor the snapshots nor the turn rows; for an existing (active)
\* conversation it answers with the current kind, phase, slot map and synopsis of the
\* latest snapshot and turn count, for an unknown one with an error; a row whose status
\* is not active would get an error and stay as it is; and the status of a conversation
\* is active after every sequence of turns, phase completed included.
C38_ResumeReadOnlyActiveOnly ==
    /\ [](conversation.exists => conversation.status = ACTIVE)
    /\ [](Resumed => ResumeAnswer)
    /\ []InactiveRefused
    /\ [][last'.op = "resume" /\ turns' # turns =>
              UNCHANGED <<conversation, snapshots, initial_turn, route_turns>>]_vars

\* a completed conversation, its snapshots written, is resumed
C38_Witness ==
    /\ Resumed
    /\ last.reply = "resume_context"
    /\ conversation.current_phase = COMPLETED
    /\ conversation.status = ACTIVE
    /\ snapshots # <<>>

(***************************************************************************)
(* C39                                                                     *)
(***************************************************************************)
\* the key is the same for the same pairs in any order, and differs with the pairs
KeyOfThePairs ==
    \A name \in PipelineTools, p \in ParamLists, q \in ParamLists :
        (ParamSet(p) = ParamSet(q)) <=> (get_cache_key(name, p) = get_cache_key(name, q))

\* no cache holds a failed result
OnlySuccessesStored ==
    \A name \in PipelineTools :
        \A cache_key \in DOMAIN probe.instances[name] : probe.instances[name][cache_key].success

\* the two latest calls were of the same tool with the same pairs, and the earlier one
\* returned a success, fresh or from the cache
SameCallTwice ==
    /\ probe.previous.name # "none"
    /\ probe.previous.name = probe.call.name
    /\ ParamSet(probe.previous.params) = ParamSet(probe.call.params)
    /\ ~probe.previous.result.none
    /\ probe.previous.result.success

\* the later of the two calls was made before the entry of the earlier one expired
WithinTtl == SameCallTwice /\ probe.call.at < probe.previous.result.cache_expires_at

\* the later call is answered from the cache: flagged, the stored payload, no _execute
CacheHit ==
    /\ ~probe.call.invoked
    /\ ~probe.call.result.none
    /\ probe.call.result.cached
    /\ probe.call.result.data = probe.previous.result.data

\* the later call ran _execute and the cache keeps no expired entry for its key
Reinvoked ==
    /\ probe.call.invoked
    /\ \A cache_key \in DOMAIN probe.instances[probe.call.name] :
           cache_key = probe.call.cache_key =>
               is_cache_valid(probe.instances[probe.call.name][cache_key], probe.now)

\* C39: for every pipeline tool, the attractions tool of get_attractions_tool included,
\* across the tool calls of pipeline runs: the cache key is the same exactly for the
\* same set of name/value pairs, whatever their order; only successful results are
\* stored; a second execute with the same parameters within the TTL is a cache hit with
\* the stored payload and without _execute; after the TTL the entry is evicted and
\* _execute runs again.
C39_CacheAcrossPipelineRuns ==
    /\ KeyOfThePairs
    /\ OnlySuccessesStored
    /\ (WithinTtl => CacheHit)
    /\ (SameCallTwice /\ ~WithinTtl => Reinvoked)

(***************************************************************************)
(* C40                                                                     *)
(***************************************************************************)
\* the call of caller c has returned
Returned(c) == probe.callers[c].pc = "done"

\* what caller c got is what the tool gives: the result of its own _execute, or a
\* stored success flagged as a cache hit; nothing in the cache handling raised
ToolsOwnResult(c) ==
    /\ probe.callers[c].raised_in # "cache"
    /\ \/ probe.callers[c].invoked
       \/ probe.callers[c].result.success /\ probe.callers[c].result.cached

\* the valid entries the cache holds for the key of the two calls
ValidEntries == {cache_key \in DOMAIN probe.cache : is_cache_valid(probe.cache[cache_key], RaceNow)}

\* C40: two execute calls on one tool with the same parameters, their membership test,
\* read, validity test, deletion of the expired entry, _execute and store interleaved in
\* every way: each call returns what the tool gives, never a failure that only the
\* cache handling caused, and the cache holds at most one valid entry for the key.
C40_ConcurrentExecuteHarmless ==
    /\ \A c \in Callers : Returned(c) => ToolsOwnResult(c)
    /\ Cardinality(ValidEntries) <= 1
====
